---- MODULE Spec2Model ----
(***************************************************************************)
(* Model of the velour/chat Bridge (package bridge): the poll tasks, the   *)
(* mux loop, relay's fan-out to the sibling channels, the history log, the *)
(* recv forwarder, Bridge.Receive and Bridge.Close.                        *)
(*                                                                         *)
(* The repository holds two revisions of package bridge.  The variable rev *)
(* selects the revision a behaviour runs:                                  *)
(*   "new"  src/unnamed/part_002   (Message.ReplyTo, relay deadline)       *)
(*   "old"  src/bridge/bridge.go   (chat.Reply events, no deadline)        *)
(* Spec runs the new revision, SpecOld the old one.                        *)
(***************************************************************************)
EXTENDS Integers, Sequences, FiniteSets, TLC

\* ---------------------------------------------------------------- bounds
\* Number of events the bridged adapters hand out over a whole run.
MaxEvents == 3
\* Capacity of the history log (maxHistory, 500 in the source), scaled down.
MaxHistory == 1
\* Capacity of eventsMux (100 in the source), scaled down.
MuxCap == 1
\* Number of Bridge.Send calls over a whole run.
MaxSends == 2
\* Number of Join calls, and of events handed to channels, of one client.
MaxJoins == 3
MaxRouted == 2
\* Number of items pushed onto one inbox.
MaxPush == 3
\* Number of events, and of Bridge.Send calls, of a run in which relay and
\* Bridge.Send go on at the same time.
MaxLogEvents == 2
MaxLogSends == 1
\* Number of getUpdates requests of one Telegram client, and the largest
\* update id the server hands out.
MaxPolls == 3
MaxUpdateID == 3
\* Number of pieces a message text given to formatText is made of.
MaxPieces == 4
MaxSenders == 3

\* --------------------------------------------------------------- constants
\* The bridged channels, in the order of b.channels.
channels == <<"A", "B", "C">>
Chan == {channels[i] : i \in 1..Len(channels)}
ChanIx(c) == CHOOSE i \in 1..Len(channels) : channels[i] = c

\* The empty MessageID "" (the ID of the zero chat.Message).
NoID == 0
sendCap == 10
\* A nil *chat.Message.
Nil == [nil |-> TRUE]
\* A nil chat.Channel.
NoChan == ""

\* Texts are strings, written as sequences of their parts.
MsgTexts == {<<"a">>}
EditTexts == {<<"a">>, <<"b">>}
Names == {"x", "y"}

\* The zero chat.Message.
ZeroMsg == [id |-> NoID, text |-> <<>>, from |-> "", replyTo |-> Nil]
\* The zero value of the bridge's message struct (To nil, Msg zero).
ZeroCopy == [to |-> NoChan, msg |-> ZeroMsg]

VARIABLES
    rev,          \* revision of package bridge this behaviour runs
    env,          \* what the adapters do in this behaviour (fixed by Init)
    nProduced,    \* number of events handed out by the adapters so far
    known,        \* per channel: the message ids that channel has announced
    pollPc,       \* per channel: position of its poll task
    pollEv,       \* per channel: the event its poll task holds
    eventsMux,    \* b.eventsMux
    pollError,    \* b.pollError (capacity 1)
    closeError,   \* b.closeError (capacity 1)
    closeErrorClosed,
    closed,       \* b.closed has been closed
    cancelled,    \* the root context has been cancelled
    muxPc,        \* position of the mux task
    muxEv,        \* the event the mux is handling
    muxEvs,       \* the batch the mux took from recvIn
    find,         \* the log entry relay resolved for muxEv (makeFindMessage)
    tasks,        \* the errgroup tasks of the fan-out in progress
    log,          \* b.log
    recvIn,       \* b.recvIn (capacity 1)
    recvPc,       \* position of the recv task
    recvBatch,    \* the events recv still has to forward
    recvOutClosed,
    received,     \* events returned by Bridge.Receive, in order
    closePc,      \* position of the caller of Bridge.Close
    closeResult,  \* what Bridge.Close returned
    relayed,      \* history: numbers of the events whose relay call has returned
    inRelay,      \* history: numbers of the events whose relay call is in progress
    lateTake,     \* history: muxEv was taken from eventsMux after close(b.closed)
    sent,         \* history: [via, o, id, x, xid]: channel x returned id xid for its
                  \*   copy of the message that has id `id` on channel o (via Send
                  \*   when relaying the Message, via Edit when relaying an Edit)
    recorded,     \* history: <<origin, id>> of every entry logMessage was given
    errAtClose,   \* history: the errors reported before Bridge.Close was called
    bNextID,      \* b.nextID
    apiPc,        \* per caller of Bridge.Send: its position in Send
    apiCall,      \* per caller: the Send call in progress [msg, id, before, late]
    apiTasks,     \* per caller: the errgroup tasks of its sendMessage
    apiLast,      \* the last Bridge.Edit or Bridge.Delete call [op, in, out, err]
    sends,        \* history: the Send calls that have returned [k, ok, id, before]
    jService,     \* the service of the client whose Join is followed
    jChannels,    \* per channel identifier: the handle in c.channels / cl.joined
    jHandles,     \* number of channel objects the client has created
    jJoins,       \* history: the Join calls that have returned [id, h]
    jRouted,      \* history: the events handed to a channel [id, h, n], n being
                  \*   the number of Join calls returned before
    ibKind,       \* the service of the adapter whose inbox is followed
    ibIn,         \* ch.in (capacity 1)
    ibInClosed,   \* ch.in has been closed
    ibProdPc,     \* position of the producer in its push
    ibHeld,       \* the batch the producer took from ch.in, the new item appended
    ibNext,       \* number of items pushed so far (the items are 1, 2, ...)
    ibDrainPc,    \* position of the channel's goroutine
    ibDrainBatch, \* the items the goroutine still has to put on ch.out
    ibOutClosed,  \* ch.out has been closed
    ibPulled,     \* history: the items Receive has returned, in order
    ibEOF,        \* history: Receive has returned io.EOF
    ibStopped,    \* discord: stop's goroutine is reading ch.out
    ibDiscarded,  \* history: the items stop's goroutine has read
    tgPc,         \* telegram: position of the client's poll task
    tgCancelled,  \* telegram: the client's background context has been cancelled
    tgOffset,     \* telegram: req.Offset of poll
    tgUs,         \* telegram: the updates poll is handing to demux
    tgUpdates,    \* telegram: the updates channel (capacity 1)
    tgUpdatesClosed,
    tgPollError,  \* telegram: c.pollError (capacity 1)
    tgDemuxPc,    \* telegram: position of the client's demux task
    tgClosePc,    \* telegram: position of the caller of Client.Close
    tgCloseResult,\* telegram: what Client.Close returned
    tgPolls,      \* telegram: number of getUpdates requests sent so far
    fnPc,         \* a function of an adapter: "input" before, "done" after its call
    fnRev,        \* the revision of the function that is called
    fnArg,        \* its argument
    fnRes,        \* its result
    dcDeletedBy,  \* discord server: who deleted each message ("none" while it exists)
    dcCalled,     \* history: the ids Channel.Delete has been called with
    dcDeletes,    \* discord: cl.deletes, the ids marked by Channel.Delete
    dcReq,        \* discord: the ids whose DELETE request is in flight
    dcUnreported, \* discord server: deleted ids the gateway has not yet reported
    dcGateway,    \* discord: gateway events not yet given to dispatchEvent
    dcIn,         \* discord: the batch of Delete events held by ch.in
    dcReceived,   \* history: the Delete events taken out of ch.in
    dcDispatched, \* history: the ids of the gateway events dispatchEvent has handled
    wsSend,       \* websocket: c.send, the queued requests (each named by its caller)
    wsPc,         \* websocket: position of each caller of Conn.Send
    wsCtxDone,    \* websocket: the callers whose context has ended
    wsResult,     \* websocket: what each Conn.Send returned
    wsGoPc,       \* websocket: position of goSend
    wsGoReq,      \* websocket: the request goSend holds (0: none)
    wsGoRes       \* websocket: what WriteJSON returned for it

vars == <<rev, env, nProduced, known, pollPc, pollEv, eventsMux, pollError, closeError,
          closeErrorClosed, closed, cancelled, muxPc, muxEv, muxEvs, find, tasks,
          log, recvIn, recvPc, recvBatch, recvOutClosed, received, closePc,
          closeResult, relayed, inRelay, lateTake, sent, recorded, errAtClose,
          bNextID, apiPc, apiCall, apiTasks, apiLast, sends,
          jService, jChannels, jHandles, jJoins, jRouted,
          ibKind, ibIn, ibInClosed, ibProdPc, ibHeld, ibNext, ibDrainPc, ibDrainBatch,
          ibOutClosed, ibPulled, ibEOF, ibStopped, ibDiscarded,
          tgPc, tgCancelled, tgOffset, tgUs, tgUpdates, tgUpdatesClosed, tgPollError,
          tgDemuxPc, tgClosePc, tgCloseResult, tgPolls,
          fnPc, fnRev, fnArg, fnRes,
          dcDeletedBy, dcCalled, dcDeletes, dcReq, dcUnreported, dcGateway, dcIn, dcReceived,
          dcDispatched,
          wsSend, wsPc, wsCtxDone, wsResult, wsGoPc, wsGoReq, wsGoRes>>

\* ------------------------------------------------------------------ events
NoEvent == [kind |-> "none", origin |-> NoChan, seq |-> 0, id |-> NoID, text |-> <<>>,
            from |-> "", replyTo |-> Nil, origId |-> NoID, old |-> "", new |-> ""]

\* The Message an event's ReplyTo points to: only its ID is read by the bridge.
ReplyRef(id) == [ZeroMsg EXCEPT !.id = id, !.text = <<"q">>]

AllKinds == {"Message", "Edit", "Delete", "Join", "Leave", "Rename"}

\* The events of the kinds in ks that channel c can hand out as the s-th event of
\* the run; ids are the message ids c has announced so far.  A Message gets the
\* fresh id s; an Edit keeps the id or renumbers the message to s.
EventsOf(c, s, ids, ks) ==
    LET all ==
        {[NoEvent EXCEPT !.kind = "Message", !.origin = c, !.seq = s, !.id = s,
                         !.text = t, !.from = "u", !.replyTo = r] :
            t \in MsgTexts, r \in {Nil} \cup {ReplyRef(p) : p \in ids}}
        \cup
        {[NoEvent EXCEPT !.kind = "Edit", !.origin = c, !.seq = s, !.origId = pn[1],
                         !.id = pn[2], !.text = t, !.from = "u"] :
            pn \in {<<p, p>> : p \in ids} \cup {<<p, s>> : p \in ids}, t \in EditTexts}
        \cup
        {[NoEvent EXCEPT !.kind = "Delete", !.origin = c, !.seq = s, !.id = p] :
            p \in ids}
        \cup
        {[NoEvent EXCEPT !.kind = k, !.origin = c, !.seq = s, !.from = "u"] :
            k \in {"Join", "Leave"}}
        \cup
        {[NoEvent EXCEPT !.kind = "Rename", !.origin = c, !.seq = s, !.old = "x",
                         !.new = n] : n \in Names}
    IN {ev \in all : ev.kind \in ks}

\* What Bridge.Receive hands on of an event: the payload is not read again
\* once relay has returned.
Tag(ev) == [origin |-> ev.origin, seq |-> ev.seq]

\* The message ids an event announces on its origin.
Announces(ev) == IF ev.kind \in {"Message", "Edit"} THEN {ev.id} ELSE {}

\* ------------------------------------------------------------- history log
NoEntry == <<>>

Range(s) == {s[i] : i \in 1..Len(s)}

RECURSIVE SeqFilterOut(_, _)
SeqFilterOut(s, x) ==
    IF s = <<>> THEN <<>>
    ELSE IF Head(s) = x THEN SeqFilterOut(Tail(s), x)
    ELSE <<Head(s)>> \o SeqFilterOut(Tail(s), x)

\* Mutant of allChannelsExcept: the excluded channel is not left out.
allChannelsIncluding(exclude) == channels

allChannelsExcept(exclude) == SeqFilterOut(channels, exclude)

Min(S) == CHOOSE x \in S : \A y \in S : x <= y

\* The entry makeFindMessage resolves: the first entry of lg holding a copy
\* (origin, id), or NoEntry.
makeFindMessage(lg, origin, id) ==
    LET hits == {i \in 1..Len(lg) :
                    \E j \in 1..Len(lg[i]) :
                        lg[i][j].to = origin /\ lg[i][j].msg.id = id}
    IN IF hits = {} THEN NoEntry ELSE lg[Min(hits)]

\* The closure makeFindMessage returns, applied to ch: the first copy of entry
\* sent to ch, or Nil.
findMessage(entry, ch) ==
    LET hits == {j \in 1..Len(entry) : entry[j].to = ch}
    IN IF hits = {} THEN Nil ELSE entry[Min(hits)].msg

\* logMessage of the new revision: append, then drop the oldest when over capacity.
logMessageNew(lg, entry) ==
    LET l == Append(lg, entry)
    IN IF Len(l) > MaxHistory THEN Tail(l) ELSE l

\* logMessage of the old revision: append, then truncate to the first maxHistory.
logMessageOld(lg, entry) ==
    LET l == Append(lg, entry)
    IN IF Len(l) > MaxHistory THEN SubSeq(l, 1, MaxHistory) ELSE l

logMessage(r, lg, entry) ==
    IF r = "new" THEN logMessageNew(lg, entry) ELSE logMessageOld(lg, entry)

\* ------------------------------------------------------------------- relay
\* One errgroup task of a fan-out: the goroutine for channel ch.
NewTask(ch, op) ==
    [ch |-> ch, op |-> op, st |-> "ready", called |-> FALSE, req |-> ZeroMsg,
     res |-> ZeroCopy, err |-> FALSE]

TasksFor(to, op) == [i \in 1..Len(to) |-> NewTask(to[i], op)]

\* origin.Name() + " on " + origin.ServiceName()
origName(c) == <<c, " on ", "svc", c>>

\* Mutant of OutMsg: a Leave is announced in the words of a Join.
OutMsgLeaveAsJoin(ev) ==
    CASE ev.kind = "Message" ->
            [id |-> ev.id, text |-> ev.text, from |-> ev.from, replyTo |-> ev.replyTo]
      [] ev.kind \in {"Join", "Leave"} ->
            [ZeroMsg EXCEPT !.text = <<ev.from, " joined ">> \o origName(ev.origin)]
      [] ev.kind = "Rename" ->
            [ZeroMsg EXCEPT !.text = <<ev.old, " renamed to ", ev.new, " in ">>
                                        \o origName(ev.origin)]
      [] OTHER -> ZeroMsg

\* The message relay hands to sendMessage for an event.
OutMsg(ev) ==
    CASE ev.kind = "Message" ->
            [id |-> ev.id, text |-> ev.text, from |-> ev.from, replyTo |-> ev.replyTo]
      [] ev.kind = "Join" ->
            [ZeroMsg EXCEPT !.text = <<ev.from, " joined ">> \o origName(ev.origin)]
      [] ev.kind = "Leave" ->
            [ZeroMsg EXCEPT !.text = <<ev.from, " left ">> \o origName(ev.origin)]
      [] ev.kind = "Rename" ->
            [ZeroMsg EXCEPT !.text = <<ev.old, " renamed to ", ev.new, " in ">>
                                        \o origName(ev.origin)]
      [] OTHER -> ZeroMsg

\* The log entry relay resolves before it fans out (findReply / findMessage).
FindFor(ev, lg) ==
    CASE ev.kind = "Message" /\ ev.replyTo # Nil ->
            makeFindMessage(lg, ev.origin, ev.replyTo.id)
      [] ev.kind = "Delete" -> makeFindMessage(lg, ev.origin, ev.id)
      [] ev.kind = "Edit" -> makeFindMessage(lg, ev.origin, ev.origId)
      [] OTHER -> NoEntry

\* Mutant of renameSuppressed: the test for equal names is missing.
renameNeverSuppressed(ev) == FALSE

\* relay of a Rename: old == new
renameSuppressed(ev) == ev.old = ev.new

\* The tasks relay starts for an event, entry being FindFor's result.
StartTasks(r, ev, entry) ==
    LET to == allChannelsExcept(ev.origin)
    IN CASE ev.kind \in {"Message", "Join", "Leave"} -> TasksFor(to, "send")
         [] ev.kind = "Delete" -> TasksFor(to, "delete")
         [] ev.kind = "Edit" ->
                IF r = "new" /\ findMessage(entry, ev.origin) = Nil
                THEN <<>> ELSE TasksFor(to, "edit")
         [] ev.kind = "Rename" ->
                IF renameSuppressed(ev) THEN <<>> ELSE TasksFor(to, "send")
         [] OTHER -> <<>>

\* editMessage's test that lets a task return without calling ch.Edit.
EditSkips(r, msg, text) == r = "new" /\ msg.text = text

\* Mutant of TaskCall: a delete task passes the origin's copy to ch.Delete.
TaskCallOriginCopy(r, t, ev, entry) ==
    LET msg == findMessage(entry, t.ch)
        ret == [t EXCEPT !.st = "ret"]
    IN CASE t.op = "send" ->
                [t EXCEPT !.st = "called", !.called = TRUE,
                          !.req = [OutMsg(ev) EXCEPT !.replyTo = findMessage(entry, t.ch)]]
         [] t.op = "edit" ->
                IF msg = Nil THEN ret
                ELSE IF EditSkips(r, msg, ev.text) THEN ret
                ELSE [t EXCEPT !.st = "called", !.called = TRUE,
                               !.req = [findMessage(entry, t.ch) EXCEPT !.text = ev.text]]
         [] t.op = "delete" ->
                IF msg = Nil THEN ret
                ELSE [t EXCEPT !.st = "called", !.called = TRUE,
                               !.req = findMessage(entry, ev.origin)]

\* Mutant of SendReq: the From user is not passed on.
SendReqNoFrom(ev, entry, ch) ==
    [OutMsg(ev) EXCEPT !.replyTo = findMessage(entry, ch), !.from = ""]

\* The message a send task passes to ch.Send: m := *msg; m.ReplyTo = findReply(ch).
SendReq(ev, entry, ch) == [OutMsg(ev) EXCEPT !.replyTo = findMessage(entry, ch)]

\* The message an edit task passes to ch.Edit: m := *msg; m.Text = text.
EditReq(ev, entry, ch) == [findMessage(entry, ch) EXCEPT !.text = ev.text]

\* A task runs up to its adapter call, or returns without one.
TaskCall(r, t, ev, entry) ==
    LET msg == findMessage(entry, t.ch)
        ret == [t EXCEPT !.st = "ret"]
    IN CASE t.op = "send" ->
                [t EXCEPT !.st = "called", !.called = TRUE, !.req = SendReq(ev, entry, t.ch)]
         [] t.op = "edit" ->
                IF msg = Nil THEN ret
                ELSE IF EditSkips(r, msg, ev.text) THEN ret
                ELSE [t EXCEPT !.st = "called", !.called = TRUE,
                               !.req = EditReq(ev, entry, t.ch)]
         [] t.op = "delete" ->
                IF msg = Nil THEN ret
                ELSE [t EXCEPT !.st = "called", !.called = TRUE, !.req = msg]

\* The id channel ch gives the message it sends or renumbers for event number s.
AdapterID(ch, s) == 10 * s + ChanIx(ch)

\* How an adapter call on channel ch can end.  Only the new revision puts a
\* deadline on the context of the sends; e says which channels can time out,
\* fail, or renumber a message on Edit.
Outcomes(r, e, op, ch) ==
    {"ok"}
    \cup (IF op = "send" /\ r = "new" /\ ch \in e.slow THEN {"deadline"} ELSE {})
    \cup (IF op = "edit" /\ ch \in e.renumbering THEN {"renumber"} ELSE {})
    \cup (IF ch \in e.erring THEN {"err"} ELSE {})

\* The adapter call of a task returns with outcome o; s is the event's number.
TaskReturns(t, o, s) ==
    CASE o = "err" -> [t EXCEPT !.st = "ret", !.err = TRUE]
      [] o = "deadline" ->
            [t EXCEPT !.st = "ret", !.res = [to |-> t.ch, msg |-> ZeroMsg]]
      [] t.op = "send" ->
            [t EXCEPT !.st = "ret",
                      !.res = [to |-> t.ch, msg |-> [t.req EXCEPT !.id = AdapterID(t.ch, s)]]]
      [] t.op = "edit" ->
            [t EXCEPT !.st = "ret",
                      !.res = [to |-> t.ch,
                               msg |-> IF o = "renumber"
                                       THEN [t.req EXCEPT !.id = AdapterID(t.ch, s)]
                                       ELSE t.req]]
      [] OTHER -> [t EXCEPT !.st = "ret"]

\* Mutant of appendEv: the new event is appended twice.
appendEvTwice(evs, ev) == Append(Append(evs, ev), ev)

\* Mutant of appendEv: the new event goes to the front of the batch.
appendEvFront(evs, ev) == <<ev>> \o evs

\* mux: append(evs, ev), the batch mux puts back on recvIn.
appendEv(evs, ev) == Append(evs, ev)

\* Mutant of AllReturned: group.Wait returns when one task has returned.
SomeReturned(ts) == \E i \in 1..Len(ts) : ts[i].st = "ret"

\* group.Wait: every task of the group has returned.
AllReturned(ts) == \A i \in 1..Len(ts) : ts[i].st = "ret"
\* Mutant of AnyError: a Send that ran into the deadline counts as failed.
AnyErrorOrDeadline(ts) ==
    \E i \in 1..Len(ts) : ts[i].err \/ (ts[i].called /\ ts[i].res.msg = ZeroMsg)

\* Mutant of AnyError: the errors of the tasks are ignored.
NoError(ts) == FALSE

\* group.Wait returns an error: a task has returned one.
AnyError(ts) == \E i \in 1..Len(ts) : ts[i].err
Results(ts) == [i \in 1..Len(ts) |-> ts[i].res]

\* relay dereferences a nil origMsg: the old revision's Edit of an unlogged id.
RelayPanics(r, ev, entry) ==
    r = "old" /\ ev.kind = "Edit" /\ findMessage(entry, ev.origin) = Nil

\* The entry relay logs once the fan-out has succeeded (NoEntry: none).
EntryFor(ev, entry, ts) ==
    CASE ev.kind = "Message" ->
            Append(Results(ts),
                   [to |-> ev.origin,
                    msg |-> [id |-> ev.id, text |-> ev.text, from |-> ev.from,
                             replyTo |-> ev.replyTo]])
      [] ev.kind = "Edit" /\ findMessage(entry, ev.origin) # Nil ->
            Append(Results(ts),
                   [to |-> ev.origin,
                    msg |-> [findMessage(entry, ev.origin) EXCEPT !.id = ev.id]])
      [] OTHER -> NoEntry

\* -------------------------------------------------------- Bridge.Send etc.
\* The callers of the Bridge's own Send, Edit and Delete.
Callers == {1, 2}
\* The bridge as the To of its own copy of a message it sent.
BridgeChan == "bridge"

\* strconv.Itoa: the decimal digits of n, most significant first.
RECURSIVE Itoa(_)
Itoa(n) == IF n < 10 THEN <<n>> ELSE Itoa(n \div 10) \o <<n % 10>>

\* Mutant of nextIDAfter: the counter is not incremented.
nextIDStuck(n) == n

\* nextID: b.nextID++
nextIDAfter(n) == n + 1

\* Mutant of sendTargets: the first channel is left out.
sendTargetsButFirst == Tail(channels)

\* Bridge.Send: the channels it hands to sendMessage (b.channels).
sendTargets == channels

\* Mutant of editResult: Edit gives the message a new id.
editResultRenumbered(m) == [m EXCEPT !.id = m.id + 1]

\* Bridge.Edit: return msg, nil
editResult(m) == m

\* The messages callers pass to Bridge.Send, and to Bridge.Edit and Bridge.Delete.
SendMsgs == {[ZeroMsg EXCEPT !.text = t, !.from = "me"] : t \in MsgTexts}
OwnMsgs == {[ZeroMsg EXCEPT !.id = i, !.text = t, !.from = "me"] :
               i \in {1}, t \in MsgTexts}

NoCall == [msg |-> ZeroMsg, n |-> 0, id |-> <<>>, before |-> 0, late |-> FALSE]
NoApi == [op |-> "none", in |-> ZeroMsg, out |-> ZeroMsg, err |-> FALSE]

\* sendMessage reads of its msg what relay's Message case passes on.
ApiEvent(c) ==
    [NoEvent EXCEPT !.kind = "Message", !.text = c.msg.text, !.from = c.msg.from,
                    !.seq = c.n]

\* Number of Send calls started so far.
Started == Len(sends) + Cardinality({k \in Callers : apiPc[k] # "idle"})

\* The state of the public operations after New.
ApiInit ==
    /\ bNextID = 0
    /\ apiPc = [k \in Callers |-> "idle"]
    /\ apiCall = [k \in Callers |-> NoCall]
    /\ apiTasks = [k \in Callers |-> <<>>]
    /\ apiLast = NoApi
    /\ sends = <<>>

\* ------------------------------------------------------------ Client.Join
Services == {"Telegram", "IRC", "Slack", "Discord"}
\* No client is followed.
NoService == "none"
\* The channel identifiers Join is called with.
JoinIDs == {"x", "y"}
\* c.channels[id] == nil / not ok
NoHandle == 0

\* A client of one of the services S after its construction.
JoinInit(S) ==
    /\ jService \in S
    /\ jChannels = [id \in JoinIDs |-> NoHandle]
    /\ jHandles = 0
    /\ jJoins = <<>>
    /\ jRouted = <<>>

joinVars == <<jService, jChannels, jHandles, jJoins, jRouted>>

\* ------------------------------------------------------- adapter inboxes
InboxKinds == {"Telegram", "IRC", "Discord"}
\* Capacity of ch.in.
InCap == 1

\* Mutant of takeBatch: the receive leaves the batch in ch.in.
takeBatchLeft(in) == in
\* case us := <-ch.in: what is left in ch.in
takeBatch(in) == Tail(in)

\* Mutant of swapAppend: the new item goes in front.
swapPrepend(us, u) == <<u>> \o us
\* append(us, &u)
swapAppend(us, u) == Append(us, u)

\* newChannel / start for an adapter of one of the services S.  The goroutine
\* of an IRC channel first waits for the origin and for the WHO replies.
InboxInit(S) ==
    /\ ibKind \in S
    /\ ibIn = <<>>
    /\ ibInClosed = FALSE
    /\ ibProdPc = "idle"
    /\ ibHeld = <<>>
    /\ ibNext = 0
    /\ ibDrainPc = IF ibKind = "IRC" THEN "origin" ELSE "range"
    /\ ibDrainBatch = <<>>
    /\ ibOutClosed = FALSE
    /\ ibPulled = <<>>
    /\ ibEOF = FALSE
    /\ ibStopped = FALSE
    /\ ibDiscarded = <<>>

inboxVars == <<ibKind, ibIn, ibInClosed, ibProdPc, ibHeld, ibNext, ibDrainPc,
               ibDrainBatch, ibOutClosed, ibPulled, ibEOF, ibStopped, ibDiscarded>>

\* ------------------------------------------------------ Telegram long poll
\* The update ids the server hands out, and its answers to getUpdates: at most
\* two updates, in any order.
UpdateIDs == 1..MaxUpdateID
Responses ==
    {<<>>} \cup {<<a>> : a \in UpdateIDs} \cup {<<a, b>> : a \in UpdateIDs, b \in UpdateIDs}

\* Dial: the state of a client whose poll task is at pc.
TgInit(pc) ==
    /\ tgPc = pc
    /\ tgCancelled = FALSE
    /\ tgOffset = 0
    /\ tgUs = <<>>
    /\ tgUpdates = <<>>
    /\ tgUpdatesClosed = FALSE
    /\ tgPollError = <<>>
    /\ tgDemuxPc = "select"
    /\ tgClosePc = "idle"
    /\ tgCloseResult = "none"
    /\ tgPolls = 0

tgVars == <<tgPc, tgCancelled, tgOffset, tgUs, tgUpdates, tgUpdatesClosed, tgPollError,
            tgDemuxPc, tgClosePc, tgCloseResult, tgPolls>>

\* -------------------------------------------------- functions of adapters
fnVars == <<fnPc, fnRev, fnArg, fnRes>>
\* No function is called.
FnIdle ==
    /\ fnPc = "off"
    /\ fnRev = "none"
    /\ fnArg = <<>>
    /\ fnRes = <<>>

\* ------------------------------------------------- Discord message deletes
\* The ids of the messages of the joined channel.
DcIDs == {"m1", "m2", "m3"}
\* ev.ID of a MESSAGE_DELETE_BULK event, which sets IDs instead of ID.
EmptyID == ""

dcVars == <<dcDeletedBy, dcCalled, dcDeletes, dcReq, dcUnreported, dcGateway, dcIn,
            dcReceived, dcDispatched>>

\* New, Join: a client with no deletes marked, in a channel whose messages exist.
DcInit ==
    /\ dcDeletedBy = [id \in DcIDs |-> "none"]
    /\ dcCalled = {}
    /\ dcDeletes = {}
    /\ dcReq = {}
    /\ dcUnreported = {}
    /\ dcGateway = <<>>
    /\ dcIn = <<>>
    /\ dcReceived = <<>>
    /\ dcDispatched = {}

\* --------------------------------------------------------- websocket Send
WsCallers == 1..MaxSenders

wsVars == <<wsSend, wsPc, wsCtxDone, wsResult, wsGoPc, wsGoReq, wsGoRes>>

\* newConn: the send queue is empty and goSend waits for a request.
WsInit ==
    /\ wsSend = <<>>
    /\ wsPc = [k \in WsCallers |-> "idle"]
    /\ wsCtxDone = {}
    /\ wsResult = [k \in WsCallers |-> "none"]
    /\ wsGoPc = "range"
    /\ wsGoReq = 0
    /\ wsGoRes = "none"

\* The variables of the adapters' own tasks, and the adapters at rest.
adapterVars == <<tgVars, fnVars, dcVars, wsVars>>
AdaptersIdle == TgInit("off") /\ FnIdle /\ DcInit /\ WsInit

\* ----------------------------------------------------------------- actions
InitBridge(r, e) ==
    /\ rev = r
    /\ env = e
    /\ nProduced = 0
    /\ known = [c \in Chan |-> {}]
    /\ pollPc = [c \in Chan |-> "receive"]
    /\ pollEv = [c \in Chan |-> NoEvent]
    /\ eventsMux = <<>>
    /\ pollError = <<>>
    /\ closeError = <<>>
    /\ closeErrorClosed = FALSE
    /\ closed = FALSE
    /\ cancelled = FALSE
    /\ muxPc = "select"
    /\ muxEv = NoEvent
    /\ muxEvs = <<>>
    /\ find = NoEntry
    /\ tasks = <<>>
    /\ log = <<>>
    /\ recvIn = <<>>
    /\ recvPc = "select"
    /\ recvBatch = <<>>
    /\ recvOutClosed = FALSE
    /\ received = <<>>
    /\ closePc = "idle"
    /\ closeResult = <<"none">>
    /\ relayed = {}
    /\ inRelay = {}
    /\ lateTake = FALSE
    /\ sent = {}
    /\ recorded = <<>>
    /\ errAtClose = {}
    /\ ApiInit

\* A Bridge of revision r over adapters that behave as e says.
InitRev(r, e) ==
    InitBridge(r, e) /\ JoinInit({NoService}) /\ InboxInit({NoService}) /\ AdaptersIdle

\* A produces every kind of event, B and C only take relayed copies; the
\* Receive of C may fail.  B's sends always succeed and its Edit may renumber;
\* C's calls may fail and its Send may run into the relay deadline.
EnvRelay == [kinds |-> [c \in Chan |-> IF c = "A" THEN AllKinds ELSE {}],
             failing |-> {"C"}, slow |-> {"C"}, erring |-> {"C"},
             renumbering |-> {"B"}]
\* A and B produce Join events; the Receive of C may fail.
EnvMux == [kinds |-> [c \in Chan |-> IF c = "C" THEN {} ELSE {"Join"}],
           failing |-> {"C"}, slow |-> {"C"}, erring |-> {"C"}, renumbering |-> {}]

\* A produces Message and Rename events only, and no Send runs into the deadline.
EnvFan == [kinds |-> [c \in Chan |-> IF c = "A" THEN {"Message", "Rename"} ELSE {}],
           failing |-> {"C"}, slow |-> {}, erring |-> {"C"}, renumbering |-> {}]

\* A produces Message, Edit and Delete events; C's calls may fail and its Send
\* may run into the relay deadline.
EnvDel == [kinds |-> [c \in Chan |-> IF c = "A" THEN {"Message", "Edit", "Delete"} ELSE {}],
           failing |-> {}, slow |-> {"C"}, erring |-> {"C"}, renumbering |-> {}]
\* A produces Message events; C's Send may fail or run into the relay deadline.
EnvMsg == [kinds |-> [c \in Chan |-> IF c = "A" THEN {"Message"} ELSE {}],
           failing |-> {}, slow |-> {"C"}, erring |-> {"C"}, renumbering |-> {}]
\* A produces Message, Join, Leave and Rename events.
EnvNote == [kinds |-> [c \in Chan |-> IF c = "A" THEN {"Message", "Join", "Leave", "Rename"}
                                     ELSE {}],
            failing |-> {}, slow |-> {"C"}, erring |-> {"C"}, renumbering |-> {}]
\* A produces every kind of event and B Message and Delete events; C's calls
\* may fail.
EnvEcho == [kinds |-> [c \in Chan |-> IF c = "A" THEN AllKinds
                                     ELSE IF c = "B" THEN {"Message", "Delete"} ELSE {}],
            failing |-> {}, slow |-> {}, erring |-> {"C"}, renumbering |-> {}]
\* A produces Message and Edit events; the Receive of B may fail; C stalls: its
\* calls return only when their context ends.
EnvStall == [kinds |-> [c \in Chan |-> IF c = "A" THEN {"Message", "Edit"} ELSE {}],
             failing |-> {"B"}, slow |-> {"C"}, erring |-> {"C"}, renumbering |-> {}]
\* A produces Join events; the Receive of B and that of C may fail.
EnvPoll == [kinds |-> [c \in Chan |-> IF c = "A" THEN {"Join"} ELSE {}],
            failing |-> {"B", "C"}, slow |-> {}, erring |-> {"C"}, renumbering |-> {}]

Init == InitRev("new", EnvRelay)
InitDel == InitRev("new", EnvDel)
InitMsg == InitRev("new", EnvMsg)
InitNote == InitRev("new", EnvNote)
InitPoll == InitRev("new", EnvPoll)
InitEcho == InitRev("new", EnvEcho)
InitStall == InitRev("new", EnvStall)
InitFan == InitRev("new", EnvFan)
InitOld == InitRev("old", EnvRelay)
InitMux == InitRev("new", EnvMux)

cfgVars == <<rev, env>>
pollVars == <<nProduced, known, pollPc, pollEv>>
muxVars == <<muxPc, muxEv, muxEvs, find, tasks>>
recvVars == <<recvPc, recvBatch, recvOutClosed, received>>
closeVars == <<closePc, closeResult>>
endVars == <<closeError, closeErrorClosed, cancelled>>
histVars == <<relayed, inRelay, lateTake, sent, recorded, errAtClose>>
apiVars == <<bNextID, apiPc, apiCall, apiTasks, apiLast, sends>>
\* The variables outside the poll, mux, relay, recv and Close tasks.
extVars == <<apiVars, joinVars, inboxVars, adapterVars>>

\* poll: ch.Receive returns the next event of channel c.
PollReceive(c) ==
    /\ pollPc[c] = "receive"
    /\ nProduced < MaxEvents
    /\ \E ev \in EventsOf(c, nProduced + 1, known[c], env.kinds[c]) :
          /\ pollEv' = [pollEv EXCEPT ![c] = ev]
          /\ known' = [known EXCEPT ![c] = @ \cup Announces(ev)]
    /\ nProduced' = nProduced + 1
    /\ pollPc' = [pollPc EXCEPT ![c] = "push"]
    /\ UNCHANGED <<cfgVars, extVars, eventsMux, pollError, endVars, closed, muxVars, log, recvIn,
                   recvVars, closeVars, histVars>>

\* poll: b.eventsMux <- ev, which waits while eventsMux is full.
PollPush(c) ==
    /\ pollPc[c] = "push"
    /\ Len(eventsMux) < MuxCap
    /\ eventsMux' = Append(eventsMux, pollEv[c])
    /\ pollPc' = [pollPc EXCEPT ![c] = "receive"]
    /\ pollEv' = [pollEv EXCEPT ![c] = NoEvent]
    /\ UNCHANGED <<cfgVars, extVars, nProduced, known, pollError, endVars, closed, muxVars, log,
                   recvIn, recvVars, closeVars, histVars>>

\* poll: ch.Receive returns context.Canceled; the task returns without a report.
PollCancelled(c) ==
    /\ pollPc[c] = "receive"
    /\ cancelled
    /\ pollPc' = [pollPc EXCEPT ![c] = "done"]
    /\ UNCHANGED <<cfgVars, extVars, nProduced, known, pollEv, eventsMux, pollError, endVars,
                   closed, muxVars, log, recvIn, recvVars, closeVars, histVars>>

\* Mutant of PollFails: the error replaces the one waiting in pollError.
PollFailsReplaces(c) ==
    /\ pollPc[c] = "receive"
    /\ c \in env.failing
    /\ pollError' = <<<<"receive", c>>>>
    /\ pollPc' = [pollPc EXCEPT ![c] = "done"]
    /\ UNCHANGED <<cfgVars, extVars, nProduced, known, pollEv, eventsMux, endVars, closed,
                   muxVars, log, recvIn, recvVars, closeVars, histVars>>

\* poll: ch.Receive fails; the error is offered to pollError without blocking.
PollFails(c) ==
    /\ pollPc[c] = "receive"
    /\ c \in env.failing
    /\ pollError' = IF pollError = <<>> THEN <<<<"receive", c>>>> ELSE pollError
    /\ pollPc' = [pollPc EXCEPT ![c] = "done"]
    /\ UNCHANGED <<cfgVars, extVars, nProduced, known, pollEv, eventsMux, endVars, closed,
                   muxVars, log, recvIn, recvVars, closeVars, histVars>>

\* mux returns: the deferred close(b.closeError) and cancel() run.
MuxEnds(err) ==
    /\ muxPc' = "done"
    /\ closeError' = IF err = <<>> THEN closeError ELSE Append(closeError, err)
    /\ closeErrorClosed' = TRUE
    /\ cancelled' = TRUE

\* mux: case <-b.closed
MuxClosed ==
    /\ muxPc = "select"
    /\ closed
    /\ MuxEnds(<<>>)
    /\ UNCHANGED <<cfgVars, extVars, pollVars, eventsMux, pollError, closed, muxEv, muxEvs, find,
                   tasks, log, recvIn, recvVars, closeVars, histVars>>

\* mux: case err := <-b.pollError
MuxPollError ==
    /\ muxPc = "select"
    /\ pollError # <<>>
    /\ MuxEnds(Head(pollError))
    /\ pollError' = Tail(pollError)
    /\ UNCHANGED <<cfgVars, extVars, pollVars, eventsMux, closed, muxEv, muxEvs, find, tasks, log,
                   recvIn, recvVars, closeVars, histVars>>

\* Mutant of MuxTake: the event goes to recvIn without a relay call.
MuxTakeNoRelay ==
    /\ muxPc = "select"
    /\ eventsMux # <<>>
    /\ muxEv' = Head(eventsMux)
    /\ eventsMux' = Tail(eventsMux)
    /\ muxPc' = "push"
    /\ UNCHANGED <<cfgVars, extVars, pollVars, pollError, endVars, closed, muxEvs, find, tasks,
                   log, recvIn, recvVars, closeVars, histVars>>

\* Mutant of MuxTake: relay runs as a task of its own and mux takes the next
\* event while it is in progress.
MuxTakeConcurrent ==
    /\ muxPc \in {"select", "relay"}
    /\ eventsMux # <<>>
    /\ LET ev == Head(eventsMux)
           entry == FindFor(ev, log)
       IN /\ muxEv' = ev
          /\ find' = entry
          /\ tasks' = StartTasks(rev, ev, entry)
          /\ inRelay' = inRelay \cup {ev.seq}
    /\ lateTake' = closed
    /\ eventsMux' = Tail(eventsMux)
    /\ muxPc' = "relay"
    /\ UNCHANGED <<cfgVars, extVars, pollVars, pollError, endVars, closed, muxEvs, log, recvIn,
                   recvVars, closeVars, relayed, sent, recorded, errAtClose>>

\* mux: case ev := <-b.eventsMux, and relay up to the start of its fan-out.
MuxTake ==
    /\ muxPc = "select"
    /\ eventsMux # <<>>
    /\ LET ev == Head(eventsMux)
           entry == FindFor(ev, log)
       IN /\ muxEv' = ev
          /\ find' = entry
          /\ tasks' = StartTasks(rev, ev, entry)
          /\ inRelay' = inRelay \cup {ev.seq}
    /\ lateTake' = closed
    /\ eventsMux' = Tail(eventsMux)
    /\ muxPc' = "relay"
    /\ UNCHANGED <<cfgVars, extVars, pollVars, pollError, endVars, closed, muxEvs, log, recvIn,
                   recvVars, closeVars, relayed, sent, recorded, errAtClose>>

\* A task of the fan-out reaches its adapter call, or returns without calling.
TaskStep(i) ==
    /\ muxPc = "relay"
    /\ i \in 1..Len(tasks)
    /\ tasks[i].st = "ready"
    /\ tasks' = [tasks EXCEPT ![i] = TaskCall(rev, tasks[i], muxEv, find)]
    /\ UNCHANGED <<cfgVars, extVars, pollVars, eventsMux, pollError, endVars, closed, muxPc, muxEv,
                   muxEvs, find, log, recvIn, recvVars, closeVars, histVars>>

\* What a logMessage call adds to the history of recorded entries: the origin's
\* id of the entry, the event's number, and the id the entry was found under.
Recorded(ev) ==
    [o |-> ev.origin, id |-> ev.id, s |-> ev.seq,
     orig |-> IF ev.kind = "Edit" THEN ev.origId ELSE ev.id]

\* What a returning Send or Edit adds to the history of returned ids.
Returned(ev, t) ==
    IF t.err \/ ev.kind \notin {"Message", "Edit"} THEN {}
    ELSE {[via |-> t.op, o |-> ev.origin, id |-> ev.id, s |-> ev.seq, x |-> t.ch,
           xid |-> t.res.msg.id, text |-> t.res.msg.text]}

\* The adapter call of a task returns.
TaskDone(i) ==
    /\ muxPc = "relay"
    /\ i \in 1..Len(tasks)
    /\ tasks[i].st = "called"
    /\ \E o \in Outcomes(rev, env, tasks[i].op, tasks[i].ch) :
          /\ tasks' = [tasks EXCEPT ![i] = TaskReturns(tasks[i], o, muxEv.seq)]
          /\ sent' = sent \cup Returned(muxEv, tasks'[i])
    /\ UNCHANGED <<cfgVars, extVars, pollVars, eventsMux, pollError, endVars, closed, muxPc, muxEv,
                   muxEvs, find, log, recvIn, recvVars, closeVars, relayed, inRelay,
                   lateTake, recorded, errAtClose>>

\* group.Wait returns an error: relay returns it, mux reports it and returns.
RelayFails ==
    /\ muxPc = "relay"
    /\ AllReturned(tasks)
    /\ AnyError(tasks)
    /\ MuxEnds(<<"relay", muxEv.seq>>)
    /\ relayed' = relayed \cup {muxEv.seq}
    /\ inRelay' = inRelay \ {muxEv.seq}
    /\ UNCHANGED <<cfgVars, extVars, pollVars, eventsMux, pollError, closed, muxEv, muxEvs, find,
                   tasks, log, recvIn, recvVars, closeVars, lateTake, sent, recorded, errAtClose>>

\* group.Wait returns nil: relay logs the entry, if any, and returns nil; in the
\* old revision relay of an Edit first dereferences origMsg, which crashes the
\* program when it is nil.
RelayReturns ==
    /\ muxPc = "relay"
    /\ AllReturned(tasks)
    /\ ~AnyError(tasks)
    /\ IF RelayPanics(rev, muxEv, find)
       THEN /\ muxPc' = "panic"
            /\ UNCHANGED <<log, relayed, inRelay, lateTake, recorded, find, tasks>>
       ELSE /\ LET entry == EntryFor(muxEv, find, tasks)
               IN /\ log' = IF entry = NoEntry THEN log ELSE logMessage(rev, log, entry)
                  /\ recorded' = IF entry = NoEntry THEN recorded
                                 ELSE Append(recorded, Recorded(muxEv))
            /\ relayed' = relayed \cup {muxEv.seq}
            /\ inRelay' = inRelay \ {muxEv.seq}
            /\ lateTake' = FALSE
            /\ find' = NoEntry
            /\ tasks' = <<>>
            /\ muxPc' = "push"
    /\ UNCHANGED <<cfgVars, extVars, pollVars, eventsMux, pollError, endVars, closed, muxEv,
                   muxEvs, recvIn, recvVars, closeVars, sent, errAtClose>>

\* mux: case b.recvIn <- []chat.Event{ev}
MuxDeposit ==
    /\ muxPc = "push"
    /\ recvIn = <<>>
    /\ recvIn' = <<<<Tag(muxEv)>>>>
    /\ muxPc' = "select"
    /\ muxEv' = NoEvent
    /\ UNCHANGED <<cfgVars, extVars, pollVars, eventsMux, pollError, endVars, closed, muxEvs,
                   find, tasks, log, recvVars, closeVars, histVars>>

\* mux: case evs := <-b.recvIn
MuxSwap ==
    /\ muxPc = "push"
    /\ recvIn # <<>>
    /\ muxEvs' = Head(recvIn)
    /\ recvIn' = <<>>
    /\ muxPc' = "redeposit"
    /\ UNCHANGED <<cfgVars, extVars, pollVars, eventsMux, pollError, endVars, closed, muxEv, find,
                   tasks, log, recvVars, closeVars, histVars>>

\* mux: b.recvIn <- append(evs, ev)
MuxRedeposit ==
    /\ muxPc = "redeposit"
    /\ recvIn = <<>>
    /\ recvIn' = <<appendEv(muxEvs, Tag(muxEv))>>
    /\ muxEvs' = <<>>
    /\ muxEv' = NoEvent
    /\ muxPc' = "select"
    /\ UNCHANGED <<cfgVars, extVars, pollVars, eventsMux, pollError, endVars, closed, find,
                   tasks, log, recvVars, closeVars, histVars>>

\* recv: case evs := <-b.recvIn
RecvTake ==
    /\ recvPc = "select"
    /\ recvIn # <<>>
    /\ recvBatch' = Head(recvIn)
    /\ recvIn' = <<>>
    /\ recvPc' = "forward"
    /\ UNCHANGED <<cfgVars, extVars, pollVars, eventsMux, pollError, endVars, closed, muxVars, log,
                   recvOutClosed, received, closeVars, histVars>>

\* recv: case b.recvOut <- ev, met by a Bridge.Receive that returns ev.
Receive ==
    /\ recvPc = "forward"
    /\ recvBatch # <<>>
    /\ received' = Append(received, Head(recvBatch))
    /\ recvBatch' = Tail(recvBatch)
    /\ recvPc' = IF Tail(recvBatch) = <<>> THEN "select" ELSE "forward"
    /\ UNCHANGED <<cfgVars, extVars, pollVars, eventsMux, pollError, endVars, closed, muxVars, log,
                   recvIn, recvOutClosed, closeVars, histVars>>

\* recv: case <-ctx.Done(); the deferred close(b.recvOut) runs.
RecvCancelled ==
    /\ recvPc \in {"select", "forward"}
    /\ cancelled
    /\ recvPc' = "done"
    /\ recvBatch' = <<>>
    /\ recvOutClosed' = TRUE
    /\ UNCHANGED <<cfgVars, extVars, pollVars, eventsMux, pollError, endVars, closed, muxVars, log,
                   recvIn, received, closeVars, histVars>>

\* Bridge.Close: close(b.closed)
CloseCall ==
    /\ closePc = "idle"
    /\ closed' = TRUE
    /\ closePc' = "waiting"
    /\ errAtClose' = Range(pollError) \cup Range(closeError)
    /\ UNCHANGED <<cfgVars, extVars, pollVars, eventsMux, pollError, endVars, muxVars, log, recvIn,
                   recvVars, closeResult, relayed, inRelay, lateTake, sent, recorded>>

\* Bridge.Close: err := <-b.closeError; return err
CloseReturn ==
    /\ closePc = "waiting"
    /\ closeError # <<>> \/ closeErrorClosed
    /\ closeResult' = IF closeError # <<>> THEN Head(closeError) ELSE <<"nil">>
    /\ closeError' = IF closeError # <<>> THEN Tail(closeError) ELSE closeError
    /\ closePc' = "returned"
    /\ UNCHANGED <<cfgVars, extVars, pollVars, eventsMux, pollError, closeErrorClosed, cancelled,
                   closed, muxVars, log, recvIn, recvVars, histVars>>

\* A nil dereference ends the whole program.
Crashed == muxPc = "panic"

Next ==
    /\ ~Crashed
    /\ \/ \E c \in Chan : PollReceive(c)
       \/ \E c \in Chan : PollPush(c)
       \/ \E c \in Chan : PollCancelled(c)
       \/ \E c \in Chan : PollFails(c)
       \/ MuxClosed
       \/ MuxPollError
       \/ MuxTake
       \/ \E i \in 1..Len(channels) : TaskStep(i)
       \/ \E i \in 1..Len(channels) : TaskDone(i)
       \/ RelayFails
       \/ RelayReturns
       \/ MuxDeposit
       \/ MuxSwap
       \/ MuxRedeposit
       \/ RecvTake
       \/ Receive
       \/ RecvCancelled
       \/ CloseCall
       \/ CloseReturn

\* The new revision (src/unnamed/part_002), fan-out of every kind of event.
Spec == Init /\ [][Next]_vars
\* The old revision (src/bridge/bridge.go), fan-out of every kind of event.
SpecOld == InitOld /\ [][Next]_vars
\* The new revision, two producing poll tasks.
SpecMux == InitMux /\ [][Next]_vars
\* The new revision, fan-out of Message and Rename events.
SpecFan == InitFan /\ [][Next]_vars

\* The tasks of a Bridge whose channels' Receive never fails: the poll tasks
\* hand events on and stay in Receive when the context is cancelled.
NextRelay ==
    \/ \E c \in Chan : PollReceive(c)
    \/ \E c \in Chan : PollPush(c)
    \/ MuxClosed
    \/ MuxTake
    \/ \E i \in 1..Len(channels) : TaskStep(i)
    \/ \E i \in 1..Len(channels) : TaskDone(i)
    \/ RelayFails
    \/ RelayReturns
    \/ MuxDeposit
    \/ MuxSwap
    \/ MuxRedeposit
    \/ RecvTake
    \/ Receive
    \/ RecvCancelled
    \/ CloseCall
    \/ CloseReturn

\* The poll tasks and mux of a Bridge nobody calls Receive or Close on: mux
\* keeps the events it relayed in the recvIn slot.
NextDel ==
    \/ \E c \in Chan : PollReceive(c)
    \/ \E c \in Chan : PollPush(c)
    \/ MuxTake
    \/ \E i \in 1..Len(channels) : TaskStep(i)
    \/ \E i \in 1..Len(channels) : TaskDone(i)
    \/ RelayFails
    \/ RelayReturns
    \/ MuxDeposit
    \/ MuxSwap
    \/ MuxRedeposit

\* The new revision, fan-out of Message, Edit and Delete events.
SpecDel == InitDel /\ [][NextDel]_vars
\* The new revision, fan-out of Message events under the relay deadline.
SpecMsg == InitMsg /\ [][NextRelay]_vars
\* The new revision, fan-out of Message, Join, Leave and Rename events.
SpecNote == InitNote /\ [][NextDel]_vars
\* The new revision, fan-out of the events of two origins.
SpecEcho == InitEcho /\ [][NextDel]_vars
\* The new revision, two poll tasks whose Receive may fail.
SpecPoll == InitPoll /\ [][Next]_vars

\* The context of the adapter call of task t has ended: the root context has
\* been cancelled or, for a Send of the new revision, sendMessage's deadline
\* has passed.  relay passes its own context on to editMessage and deleteMessage.
CtxEnded(t) == cancelled \/ (t.op = "send" /\ rev = "new")

\* The adapter call of a task returns; on a channel that stalls only once the
\* context of the call has ended.
TaskEnds(i) ==
    /\ i \in 1..Len(tasks)
    /\ tasks[i].ch \in env.slow => CtxEnded(tasks[i])
    /\ TaskDone(i)

NextStall ==
    \/ \E c \in Chan : PollReceive(c)
    \/ \E c \in Chan : PollPush(c)
    \/ \E c \in Chan : PollCancelled(c)
    \/ \E c \in Chan : PollFails(c)
    \/ MuxClosed
    \/ MuxPollError
    \/ MuxTake
    \/ \E i \in 1..Len(channels) : TaskStep(i)
    \/ \E i \in 1..Len(channels) : TaskEnds(i)
    \/ RelayFails
    \/ RelayReturns
    \/ MuxDeposit
    \/ MuxSwap
    \/ MuxRedeposit
    \/ RecvTake
    \/ Receive
    \/ RecvCancelled
    \/ CloseCall
    \/ CloseReturn

\* Every task of the Bridge that can take a step eventually takes one, and a
\* select of mux that is ready on b.closed again and again eventually takes it
\* (Go picks among the ready cases at random).  Nothing is assumed of the
\* adapters' Receive handing out events or failing, nor of the callers of
\* Bridge.Receive and Bridge.Close.
FairStall ==
    /\ \A c \in Chan : WF_vars(PollPush(c)) /\ WF_vars(PollCancelled(c))
    /\ SF_vars(MuxClosed)
    /\ WF_vars(MuxClosed \/ MuxPollError \/ MuxTake)
    /\ \A i \in 1..Len(channels) : WF_vars(TaskStep(i)) /\ WF_vars(TaskEnds(i))
    /\ WF_vars(RelayFails)
    /\ WF_vars(RelayReturns)
    /\ WF_vars(MuxDeposit \/ MuxSwap)
    /\ WF_vars(MuxRedeposit)
    /\ WF_vars(RecvTake)
    /\ WF_vars(RecvCancelled)
    /\ WF_vars(CloseReturn)

\* The new revision under fair scheduling, with a sibling that stalls.
SpecStall == InitStall /\ [][NextStall]_vars /\ FairStall

\* The variables of the poll, mux, relay and recv tasks that the public
\* operations leave alone.
quietVars == <<cfgVars, pollVars, eventsMux, pollError, endVars, closed, muxVars, recvIn,
               recvVars, closeVars, histVars, joinVars, inboxVars, adapterVars>>

\* Bridge.Send is called; sendMessage starts a task per channel.
ApiSendStart(k) ==
    /\ apiPc[k] = "idle"
    /\ Started < MaxSends
    /\ \E m \in SendMsgs :
          apiCall' = [apiCall EXCEPT ![k] =
                         [msg |-> m, n |-> Started + 1, id |-> <<>>,
                          before |-> Len(sends), late |-> muxPc = "done"]]
    /\ apiTasks' = [apiTasks EXCEPT ![k] = TasksFor(sendTargets, "send")]
    /\ apiPc' = [apiPc EXCEPT ![k] = "fanout"]
    /\ UNCHANGED <<quietVars, log, bNextID, apiLast, sends>>

\* A task of Bridge.Send's sendMessage calls ch.Send, which returns.
ApiTask(k, i) ==
    /\ apiPc[k] = "fanout"
    /\ i \in 1..Len(apiTasks[k])
    /\ apiTasks[k][i].st = "ready"
    /\ LET t == TaskCall(rev, apiTasks[k][i], ApiEvent(apiCall[k]), NoEntry)
       IN \E o \in Outcomes(rev, env, "send", t.ch) :
             apiTasks' = [apiTasks EXCEPT ![k][i] = TaskReturns(t, o, apiCall[k].n)]
    /\ UNCHANGED <<quietVars, log, bNextID, apiPc, apiCall, apiLast, sends>>

\* Bridge.Send: sendMessage returned an error; return chat.Message{}, err
ApiSendFails(k) ==
    /\ apiPc[k] = "fanout"
    /\ AllReturned(apiTasks[k])
    /\ AnyError(apiTasks[k])
    /\ sends' = Append(sends, [k |-> k, ok |-> FALSE, id |-> <<>>,
                               before |-> apiCall[k].before])
    /\ apiPc' = [apiPc EXCEPT ![k] = "idle"]
    /\ apiCall' = [apiCall EXCEPT ![k] = NoCall]
    /\ apiTasks' = [apiTasks EXCEPT ![k] = <<>>]
    /\ UNCHANGED <<quietVars, log, bNextID, apiLast>>

\* Bridge.Send: msg.ID = nextID(b)
ApiSendNextID(k) ==
    /\ apiPc[k] = "fanout"
    /\ AllReturned(apiTasks[k])
    /\ ~AnyError(apiTasks[k])
    /\ bNextID' = nextIDAfter(bNextID)
    /\ apiCall' = [apiCall EXCEPT ![k].id = Itoa(bNextID' - 1)]
    /\ apiPc' = [apiPc EXCEPT ![k] = "log"]
    /\ UNCHANGED <<quietVars, log, apiTasks, apiLast, sends>>

\* Bridge.Send: the entry it logs.
ApiEntry(c, ts) ==
    Append(Results(ts), [to |-> BridgeChan, msg |-> [c.msg EXCEPT !.id = c.id]])

\* Bridge.Send: msgs = append(msgs, ...); logMessage(b, msgs); return msg, nil
ApiSendLog(k) ==
    /\ apiPc[k] = "log"
    /\ log' = logMessage(rev, log, ApiEntry(apiCall[k], apiTasks[k]))
    /\ sends' = Append(sends, [k |-> k, ok |-> TRUE, id |-> apiCall[k].id,
                               before |-> apiCall[k].before])
    /\ apiPc' = [apiPc EXCEPT ![k] = "idle"]
    /\ apiCall' = [apiCall EXCEPT ![k] = NoCall]
    /\ apiTasks' = [apiTasks EXCEPT ![k] = <<>>]
    /\ UNCHANGED <<quietVars, bNextID, apiLast>>

\* Bridge.Edit
BridgeEdit(m) ==
    /\ apiLast' = [op |-> "edit", in |-> m, out |-> editResult(m), err |-> FALSE]
    /\ UNCHANGED <<quietVars, log, bNextID, apiPc, apiCall, apiTasks, sends>>

\* Bridge.Delete
BridgeDelete(m) ==
    /\ apiLast' = [op |-> "delete", in |-> m, out |-> m, err |-> FALSE]
    /\ UNCHANGED <<quietVars, log, bNextID, apiPc, apiCall, apiTasks, sends>>

\* The channels stay quiet; callers use the Bridge's own Send, Edit, Delete and
\* Close.  C's Send may fail or run into the deadline.
EnvApi == [kinds |-> [c \in Chan |-> {}], failing |-> {}, slow |-> {"C"},
           erring |-> {"C"}, renumbering |-> {}]
InitApi == InitRev("new", EnvApi)

NextApi ==
    \/ \E k \in Callers : ApiSendStart(k)
    \/ \E k \in Callers, i \in 1..Len(channels) : ApiTask(k, i)
    \/ \E k \in Callers : ApiSendFails(k)
    \/ \E k \in Callers : ApiSendNextID(k)
    \/ \E k \in Callers : ApiSendLog(k)
    \/ \E m \in OwnMsgs : BridgeEdit(m)
    \/ \E m \in OwnMsgs : BridgeDelete(m)
    \/ CloseCall
    \/ MuxClosed
    \/ CloseReturn

\* The new revision, the Bridge's own operations on quiet channels.
SpecApi == InitApi /\ [][NextApi]_vars

\* A produces Message events; no call of an adapter fails.
EnvLog == [kinds |-> [c \in Chan |-> IF c = "A" THEN {"Message"} ELSE {}],
           failing |-> {}, slow |-> {}, erring |-> {}, renumbering |-> {}]
InitLog == InitRev("new", EnvLog)

\* poll and Bridge.Send, for as many events and calls as the run has.
LogPollReceive(c) == nProduced < MaxLogEvents /\ PollReceive(c)
LogSendStart(k) == Started < MaxLogSends /\ ApiSendStart(k)

\* The mux relays Message events while callers use Bridge.Send.
NextLog ==
    \/ \E c \in Chan : LogPollReceive(c)
    \/ \E c \in Chan : PollPush(c)
    \/ MuxTake
    \/ \E i \in 1..Len(channels) : TaskStep(i)
    \/ \E i \in 1..Len(channels) : TaskDone(i)
    \/ RelayReturns
    \/ MuxDeposit
    \/ MuxSwap
    \/ MuxRedeposit
    \/ \E k \in Callers : LogSendStart(k)
    \/ \E k \in Callers, i \in 1..Len(channels) : ApiTask(k, i)
    \/ \E k \in Callers : ApiSendNextID(k)
    \/ \E k \in Callers : ApiSendLog(k)

\* The new revision, relay of Message events concurrent with Bridge.Send.
SpecLog == InitLog /\ [][NextLog]_vars

\* ------------------------------------------------------------ Client.Join
\* The Bridge, which the clients' Join and inboxes leave alone.
bridgeVars == <<cfgVars, pollVars, eventsMux, pollError, endVars, closed, muxVars, recvIn,
                recvVars, closeVars, histVars, log, apiVars, adapterVars>>

\* Join returns handle h for identifier id.
JoinReturns(id, h) == jJoins' = Append(jJoins, [id |-> id, h |-> h])
\* An event of channel id is pushed onto the inbox of handle h.
Routes(id, h) == jRouted' = Append(jRouted, [id |-> id, h |-> h, n |-> Len(jJoins)])

\* The client makes a channel object and puts it in its map under id.
NewHandle(id) ==
    /\ jHandles' = jHandles + 1
    /\ jChannels' = [jChannels EXCEPT ![id] = jHandles']

\* telegram Join: if ch = c.channels[chat.ID]; ch == nil { ch = newChannel(...) }
TelegramJoin(id) ==
    /\ jService = "Telegram"
    /\ Len(jJoins) < MaxJoins
    /\ IF jChannels[id] = NoHandle
       THEN NewHandle(id)
       ELSE UNCHANGED <<jChannels, jHandles>>
    /\ JoinReturns(id, jChannels'[id])
    /\ UNCHANGED <<bridgeVars, inboxVars, jService, jRouted>>

\* irc Join: if ch, ok := c.channels[channelName]; ok { return ch, nil }
IRCJoin(id) ==
    /\ jService = "IRC"
    /\ Len(jJoins) < MaxJoins
    /\ IF jChannels[id] = NoHandle
       THEN NewHandle(id)
       ELSE UNCHANGED <<jChannels, jHandles>>
    /\ JoinReturns(id, jChannels'[id])
    /\ UNCHANGED <<bridgeVars, inboxVars, jService, jRouted>>

\* slack join: channelsList makes new channel objects on every call, and the
\* one named id replaces c.channels[ch.ID].
SlackJoin(id) ==
    /\ jService = "Slack"
    /\ Len(jJoins) < MaxJoins
    /\ NewHandle(id)
    /\ JoinReturns(id, jChannels'[id])
    /\ UNCHANGED <<bridgeVars, inboxVars, jService, jRouted>>

\* discord Join: ch := &Channel{...}; start(ch); cl.joined[chID] = ch
DiscordJoin(id) ==
    /\ jService = "Discord"
    /\ Len(jJoins) < MaxJoins
    /\ NewHandle(id)
    /\ JoinReturns(id, jChannels'[id])
    /\ UNCHANGED <<bridgeVars, inboxVars, jService, jRouted>>

\* telegram update: the channel is made if the client has none for the chat,
\* and the update is pushed onto its inbox.
TelegramUpdate(id) ==
    /\ jService = "Telegram"
    /\ Len(jRouted) < MaxRouted
    /\ IF jChannels[id] = NoHandle
       THEN NewHandle(id)
       ELSE UNCHANGED <<jChannels, jHandles>>
    /\ Routes(id, jChannels'[id])
    /\ UNCHANGED <<bridgeVars, inboxVars, jService, jJoins>>

\* irc poll: an event of a joined channel is pushed onto c.channels[name].
IRCEvent(id) ==
    /\ jService = "IRC"
    /\ Len(jRouted) < MaxRouted
    /\ jChannels[id] # NoHandle
    /\ Routes(id, jChannels[id])
    /\ UNCHANGED <<bridgeVars, inboxVars, jService, jJoins, jChannels, jHandles>>

\* slack update: the update is pushed onto c.channels[u.Channel].  (For a
\* channel not in the map update calls c.join with c's lock held, and stops.)
SlackUpdate(id) ==
    /\ jService = "Slack"
    /\ Len(jRouted) < MaxRouted
    /\ jChannels[id] # NoHandle
    /\ Routes(id, jChannels[id])
    /\ UNCHANGED <<bridgeVars, inboxVars, jService, jJoins, jChannels, jHandles>>

\* discord: ch, ok := getChannel(cl, ev.ChannelID); send(ch, ...)
DiscordEvent(id) ==
    /\ jService = "Discord"
    /\ Len(jRouted) < MaxRouted
    /\ jChannels[id] # NoHandle
    /\ Routes(id, jChannels[id])
    /\ UNCHANGED <<bridgeVars, inboxVars, jService, jJoins, jChannels, jHandles>>

InitJoin ==
    InitBridge("new", EnvApi) /\ JoinInit(Services) /\ InboxInit({NoService}) /\ AdaptersIdle

NextJoin ==
    \/ \E id \in JoinIDs : TelegramJoin(id)
    \/ \E id \in JoinIDs : IRCJoin(id)
    \/ \E id \in JoinIDs : SlackJoin(id)
    \/ \E id \in JoinIDs : DiscordJoin(id)
    \/ \E id \in JoinIDs : TelegramUpdate(id)
    \/ \E id \in JoinIDs : IRCEvent(id)
    \/ \E id \in JoinIDs : SlackUpdate(id)
    \/ \E id \in JoinIDs : DiscordEvent(id)

\* A client of any of the four services, its Join and its incoming events.
SpecJoin == InitJoin /\ [][NextJoin]_vars

\* ------------------------------------------------------- adapter inboxes
\* What the inbox of a channel leaves alone.
outsideInbox == <<bridgeVars, joinVars, ibKind>>

\* update / sendEvent / send: case ch.in <- []*Update{&u}
IbPushDeposit ==
    /\ ibProdPc = "idle"
    /\ ~ibInClosed
    /\ ibNext < MaxPush
    /\ Len(ibIn) < InCap
    /\ ibNext' = ibNext + 1
    /\ ibIn' = Append(ibIn, <<ibNext'>>)
    /\ UNCHANGED <<outsideInbox, ibInClosed, ibProdPc, ibHeld, ibDrainPc, ibDrainBatch,
                   ibOutClosed, ibPulled, ibEOF, ibStopped, ibDiscarded>>

\* update / sendEvent / send: case us := <-ch.in
IbPushTake ==
    /\ ibProdPc = "idle"
    /\ ~ibInClosed
    /\ ibNext < MaxPush
    /\ ibIn # <<>>
    /\ ibNext' = ibNext + 1
    /\ ibHeld' = swapAppend(Head(ibIn), ibNext')
    /\ ibIn' = takeBatch(ibIn)
    /\ ibProdPc' = "redeposit"
    /\ UNCHANGED <<outsideInbox, ibInClosed, ibDrainPc, ibDrainBatch, ibOutClosed,
                   ibPulled, ibEOF, ibStopped, ibDiscarded>>

\* update / sendEvent / send: ch.in <- append(us, &u)
IbPushRedeposit ==
    /\ ibProdPc = "redeposit"
    /\ Len(ibIn) < InCap
    /\ ibIn' = Append(ibIn, ibHeld)
    /\ ibHeld' = <<>>
    /\ ibProdPc' = "idle"
    /\ UNCHANGED <<outsideInbox, ibInClosed, ibNext, ibDrainPc, ibDrainBatch,
                   ibOutClosed, ibPulled, ibEOF, ibStopped, ibDiscarded>>

\* irc newChannel's goroutine: ch.myOrigin = <-ch.inOrigin
IbOrigin ==
    /\ ibDrainPc = "origin"
    /\ ibDrainPc' = "who"
    /\ UNCHANGED <<outsideInbox, ibIn, ibInClosed, ibProdPc, ibHeld, ibNext,
                   ibDrainBatch, ibOutClosed, ibPulled, ibEOF, ibStopped, ibDiscarded>>

\* irc newChannel's goroutine: for ns := range ch.inWho ends, inWho being closed
IbWhoEnds ==
    /\ ibDrainPc = "who"
    /\ ibDrainPc' = "range"
    /\ UNCHANGED <<outsideInbox, ibIn, ibInClosed, ibProdPc, ibHeld, ibNext,
                   ibDrainBatch, ibOutClosed, ibPulled, ibEOF, ibStopped, ibDiscarded>>

\* the channel's goroutine: for us := range ch.in takes a batch
IbDrainTake ==
    /\ ibDrainPc = "range"
    /\ ibIn # <<>>
    /\ ibDrainBatch' = Head(ibIn)
    /\ ibIn' = Tail(ibIn)
    /\ ibDrainPc' = "forward"
    /\ UNCHANGED <<outsideInbox, ibInClosed, ibProdPc, ibHeld, ibNext, ibOutClosed,
                   ibPulled, ibEOF, ibStopped, ibDiscarded>>

\* The goroutine's ch.out <- u has met a receive on ch.out.
IbForwarded ==
    /\ ibDrainPc = "forward"
    /\ ibDrainBatch' = Tail(ibDrainBatch)
    /\ ibDrainPc' = IF ibDrainBatch' = <<>> THEN "range" ELSE "forward"
    /\ UNCHANGED <<outsideInbox, ibIn, ibInClosed, ibProdPc, ibHeld, ibNext, ibOutClosed,
                   ibEOF, ibStopped>>

\* Receive: case u, ok := <-ch.out with ok; the item is returned.
IbReceive ==
    /\ IbForwarded
    /\ ibPulled' = Append(ibPulled, Head(ibDrainBatch))
    /\ UNCHANGED ibDiscarded

\* discord stop's goroutine: for range ch.out takes the item.
IbDiscard ==
    /\ ibStopped
    /\ IbForwarded
    /\ ibDiscarded' = Append(ibDiscarded, Head(ibDrainBatch))
    /\ UNCHANGED ibPulled

\* the channel's goroutine: range ch.in ends, ch.in being closed and empty;
\* close(ch.out)
IbDrainEnd ==
    /\ ibDrainPc = "range"
    /\ ibIn = <<>>
    /\ ibInClosed
    /\ ibOutClosed' = TRUE
    /\ ibDrainPc' = "done"
    /\ UNCHANGED <<outsideInbox, ibIn, ibInClosed, ibProdPc, ibHeld, ibNext,
                   ibDrainBatch, ibPulled, ibEOF, ibStopped, ibDiscarded>>

\* telegram demux's deferred close(ch.in), irc Close, discord stop: they run
\* after the producer has returned.  stop also starts the goroutine that
\* reads ch.out.
IbClose ==
    /\ ~ibInClosed
    /\ ibProdPc = "idle"
    /\ ibInClosed' = TRUE
    /\ ibStopped' = (ibKind = "Discord")
    /\ UNCHANGED <<outsideInbox, ibIn, ibProdPc, ibHeld, ibNext, ibDrainPc,
                   ibDrainBatch, ibOutClosed, ibPulled, ibEOF, ibDiscarded>>

\* Receive: case u, ok := <-ch.out with !ok; return nil, io.EOF
IbReceiveEOF ==
    /\ ibOutClosed
    /\ ~ibEOF
    /\ ibEOF' = TRUE
    /\ UNCHANGED <<outsideInbox, ibIn, ibInClosed, ibProdPc, ibHeld, ibNext, ibDrainPc,
                   ibDrainBatch, ibOutClosed, ibPulled, ibStopped, ibDiscarded>>

InitInbox ==
    InitBridge("new", EnvApi) /\ JoinInit({NoService}) /\ InboxInit(InboxKinds) /\ AdaptersIdle

NextInbox ==
    \/ IbPushDeposit
    \/ IbPushTake
    \/ IbPushRedeposit
    \/ IbOrigin
    \/ IbWhoEnds
    \/ IbDrainTake
    \/ IbReceive
    \/ IbDiscard
    \/ IbDrainEnd
    \/ IbClose
    \/ IbReceiveEOF

\* The inbox of one channel of a Telegram, IRC or Discord client: its
\* producer, its goroutine, Receive and the close.
SpecInbox == InitInbox /\ [][NextInbox]_vars

\* ------------------------------------------------------ Telegram long poll
\* The variables outside the adapters' own tasks.
baseVars == <<cfgVars, pollVars, eventsMux, pollError, endVars, closed, muxVars, log, recvIn,
              recvVars, closeVars, histVars, apiVars, joinVars, inboxVars>>
tgQuiet == <<baseVars, fnVars, dcVars, wsVars>>

\* poll returns: the deferred close(updates) runs.
TgPollEnds ==
    /\ tgPc' = "done"
    /\ tgUpdatesClosed' = TRUE

\* poll: the select at the top of the loop; with the context live the default
\* case sends the next getUpdates request.
TgPollSelect ==
    /\ tgPc = "select"
    /\ IF tgCancelled
       THEN TgPollEnds /\ UNCHANGED tgPolls
       ELSE /\ tgPolls < MaxPolls
            /\ tgPolls' = tgPolls + 1
            /\ tgPc' = "rpc"
            /\ UNCHANGED tgUpdatesClosed
    /\ UNCHANGED <<tgCancelled, tgOffset, tgUs, tgUpdates, tgPollError, tgDemuxPc, tgClosePc,
                   tgCloseResult, tgQuiet>>

\* poll: req.Offset after a successful getUpdates that returned us.
nextOffset(offset, us) == IF Len(us) > 0 THEN us[Len(us)] + 1 ELSE offset

\* poll: rpc returns the server's answer us (rpc's select takes the result).
TgRpcReturns(us) ==
    /\ tgPc = "rpc"
    /\ tgOffset' = nextOffset(tgOffset, us)
    /\ tgUs' = us
    /\ tgPc' = IF Len(us) > 0 THEN "send" ELSE "select"
    /\ UNCHANGED <<tgCancelled, tgUpdates, tgUpdatesClosed, tgPollError, tgDemuxPc, tgClosePc,
                   tgCloseResult, tgPolls, tgQuiet>>

\* poll: c.pollError <- err; return
TgReport(err) ==
    /\ Len(tgPollError) < 1
    /\ tgPollError' = Append(tgPollError, err)
    /\ TgPollEnds
    /\ UNCHANGED <<tgCancelled, tgOffset, tgUs, tgUpdates, tgDemuxPc, tgClosePc, tgCloseResult,
                   tgPolls, tgQuiet>>

\* poll: the getUpdates request fails.
TgRpcFails ==
    /\ tgPc = "rpc"
    /\ TgReport("rpc failed")

\* poll: rpc's select takes <-ctx.Done() and returns ctx.Err().
TgRpcCancelled ==
    /\ tgPc = "rpc"
    /\ tgCancelled
    /\ TgReport("context canceled")

\* poll: updates <- us
TgPollSend ==
    /\ tgPc = "send"
    /\ Len(tgUpdates) < 1
    /\ tgUpdates' = Append(tgUpdates, tgUs)
    /\ tgUs' = <<>>
    /\ tgPc' = "select"
    /\ UNCHANGED <<tgCancelled, tgOffset, tgUpdatesClosed, tgPollError, tgDemuxPc, tgClosePc,
                   tgCloseResult, tgPolls, tgQuiet>>

\* demux: case us, ok := <-updates, with ok true
TgDemuxTake ==
    /\ tgDemuxPc = "select"
    /\ tgUpdates # <<>>
    /\ tgUpdates' = Tail(tgUpdates)
    /\ UNCHANGED <<tgPc, tgCancelled, tgOffset, tgUs, tgUpdatesClosed, tgPollError, tgDemuxPc,
                   tgClosePc, tgCloseResult, tgPolls, tgQuiet>>

\* demux: case <-ctx.Done(), or updates is closed and empty
TgDemuxEnds ==
    /\ tgDemuxPc = "select"
    /\ tgCancelled \/ (tgUpdatesClosed /\ tgUpdates = <<>>)
    /\ tgDemuxPc' = "done"
    /\ UNCHANGED <<tgPc, tgCancelled, tgOffset, tgUs, tgUpdates, tgUpdatesClosed, tgPollError,
                   tgClosePc, tgCloseResult, tgPolls, tgQuiet>>

\* Client.Close: c.cancel()
TgCloseCancel ==
    /\ tgClosePc = "idle"
    /\ tgCancelled' = TRUE
    /\ tgClosePc' = "select"
    /\ UNCHANGED <<tgPc, tgOffset, tgUs, tgUpdates, tgUpdatesClosed, tgPollError, tgDemuxPc,
                   tgCloseResult, tgPolls, tgQuiet>>

\* Client.Close: select { case err := <-c.pollError: return err; default: return nil }
TgCloseReturn ==
    /\ tgClosePc = "select"
    /\ tgCloseResult' = IF tgPollError # <<>> THEN Head(tgPollError) ELSE "nil"
    /\ tgPollError' = IF tgPollError # <<>> THEN Tail(tgPollError) ELSE tgPollError
    /\ tgClosePc' = "returned"
    /\ UNCHANGED <<tgPc, tgCancelled, tgOffset, tgUs, tgUpdates, tgUpdatesClosed, tgDemuxPc,
                   tgPolls, tgQuiet>>

InitTg ==
    /\ InitBridge("new", EnvApi) /\ JoinInit({NoService}) /\ InboxInit({NoService})
    /\ TgInit("select") /\ FnIdle /\ DcInit /\ WsInit

NextTg ==
    \/ TgPollSelect
    \/ \E us \in Responses : TgRpcReturns(us)
    \/ TgRpcFails
    \/ TgRpcCancelled
    \/ TgPollSend
    \/ TgDemuxTake
    \/ TgDemuxEnds
    \/ TgCloseCancel
    \/ TgCloseReturn

\* The poll and demux tasks of one Telegram client, and a caller of Close.
SpecTg == InitTg /\ [][NextTg]_vars

\* ------------------------------------------------------ Telegram chatEvent
\* The revisions of chatEvent: "channel" is src/telegram/channel.go lines 86-123
\* (its Leave case is the same in src/unnamed/part_000 lines 86-111 and 430-441),
\* "client" is src/unnamed/part_000 lines 687-723.
ChatEventRevs == {"channel", "client"}

\* Telegram users (User): id, first and last name, username.
TgUsers == {[id |-> 1, first |-> "Ann", last |-> "", username |-> "ann"],
            [id |-> 2, first |-> "Bob", last |-> "Roe", username |-> ""]}
\* The From of a message is one user; the members are any.
TgFrom == [id |-> 1, first |-> "Ann", last |-> "", username |-> "ann"]

\* The messages of an update: sent before or after the channel was created,
\* with or without From, as a reply to nothing, to a message without From or
\* to one with From, naming a new or a left chat member or neither.
TgMessages ==
    [old : BOOLEAN, from : {Nil, TgFrom}, replyTo : {"none", "no From", "From"},
     newMember : {Nil} \cup TgUsers, leftMember : {Nil} \cup TgUsers]
\* The edited messages of an update.
TgEdited == [old : BOOLEAN]
\* The updates: Message and EditedMessage, each possibly nil.
TgUpdates == [msg : {Nil} \cup TgMessages, edited : {Nil} \cup TgEdited]

\* chatUser: name is the first and last name joined and trimmed, nick the
\* username or, when that is empty, the name.
chatUser(user) ==
    LET name == IF user.last = "" THEN <<user.first>> ELSE <<user.first, " ", user.last>>
    IN [id |-> user.id, name |-> name,
        nick |-> IF user.username = "" THEN name ELSE <<user.username>>]

NoUser == [id |-> 0, name |-> <<>>, nick |-> <<>>]
\* chatEvent returns nil, nil: the update is ignored.
Ignored == [kind |-> "nil", who |-> NoUser]
\* chatEvent dereferences a nil *User: the program panics.
Panicked == [kind |-> "panic", who |-> NoUser]

\* A Join or Leave event of user; chatUser dereferences user.
MemberEvent(kind, user) ==
    IF user = Nil THEN Panicked ELSE [kind |-> kind, who |-> chatUser(user)]

\* The Leave case of src/unnamed/part_000 lines 709-710.
LeaveOf(member) == MemberEvent("Leave", member)

\* chatEvent of src/telegram/channel.go.
chatEventChannel(u) ==
    CASE u.msg # Nil /\ u.msg.old -> Ignored
      [] u.edited # Nil /\ u.edited.old -> Ignored
      [] u.msg # Nil /\ u.msg.from = Nil -> Ignored
      [] u.msg # Nil ->
            (CASE u.msg.replyTo = "From" -> [kind |-> "Reply", who |-> chatUser(u.msg.from)]
               [] u.msg.newMember # Nil -> MemberEvent("Join", u.msg.newMember)
               [] u.msg.leftMember # Nil -> MemberEvent("Leave", u.msg.newMember)
               [] OTHER -> [kind |-> "Message", who |-> chatUser(u.msg.from)])
      [] u.edited # Nil -> [kind |-> "Edit", who |-> NoUser]
      [] OTHER -> Ignored

\* chatEvent of src/unnamed/part_000 lines 687-723.
chatEventClient(u) ==
    CASE u.msg # Nil /\ u.msg.from = Nil -> Ignored
      [] u.msg # Nil /\ u.msg.replyTo # "none" ->
            IF u.msg.replyTo = "no From"
            THEN [kind |-> "Message", who |-> chatUser(u.msg.from)]
            ELSE [kind |-> "Reply", who |-> chatUser(u.msg.from)]
      [] u.msg # Nil /\ u.msg.newMember # Nil -> MemberEvent("Join", u.msg.newMember)
      [] u.msg # Nil /\ u.msg.leftMember # Nil -> LeaveOf(u.msg.leftMember)
      [] u.msg # Nil -> [kind |-> "Message", who |-> chatUser(u.msg.from)]
      [] u.edited # Nil -> [kind |-> "Edit", who |-> NoUser]
      [] OTHER -> Ignored

chatEvent(r, u) == IF r = "channel" THEN chatEventChannel(u) ELSE chatEventClient(u)

\* The variables a call of a function of an adapter leaves alone.
fnQuiet == <<baseVars, tgVars, dcVars, wsVars>>

\* An update is about to be given to chatEvent of revision r.
ChatEventInit(R) ==
    /\ fnPc = "input"
    /\ fnRev \in R
    /\ fnArg \in TgUpdates
    /\ fnRes = <<>>

\* Receive: chatEvent(ch, u)
ChatEventCall ==
    /\ fnPc = "input"
    /\ fnRes' = chatEvent(fnRev, fnArg)
    /\ fnPc' = "done"
    /\ UNCHANGED <<fnRev, fnArg, fnQuiet>>

InitChatEvent ==
    /\ InitBridge("new", EnvApi) /\ JoinInit({NoService}) /\ InboxInit({NoService})
    /\ TgInit("off") /\ ChatEventInit(ChatEventRevs) /\ DcInit /\ WsInit

NextChatEvent == ChatEventCall

\* chatEvent of both revisions, applied to every update.
SpecChatEvent == InitChatEvent /\ [][NextChatEvent]_vars

\* ----------------------------------------------------- Telegram formatText
\* Strings are sequences of characters.  The texts given to formatText are made
\* of at most MaxPieces pieces, after "/me " or not.
http == <<"h", "t", "t", "p">>
httpColonSlashSlash == <<"h", "t", "t", "p", ":", "/", "/">>
httpsColonSlashSlash == <<"h", "t", "t", "p", "s", ":", "/", "/">>
Pieces == {http, httpColonSlashSlash \o <<"a">>, <<" ">>, <<"w">>, <<"\n">>}
mePrefix == <<"/", "m", "e">>

RECURSIVE Bodies(_)
Bodies(n) ==
    IF n = 0 THEN {<<>>}
    ELSE Bodies(n - 1) \cup {b \o p : b \in Bodies(n - 1), p \in Pieces}

\* The chat.Message values given to formatText: Text and From, nil or a user
\* whose Name() is "Bob".
FormatInputs ==
    {[text |-> (IF e THEN mePrefix \o <<" ">> ELSE <<>>) \o b, from |-> f] :
        e \in BOOLEAN, b \in Bodies(MaxPieces), f \in {Nil, [name |-> "Bob"]}}

Drop(s, n) == SubSeq(s, n + 1, Len(s))
\* strings.HasPrefix
HasPrefix(s, p) == Len(s) >= Len(p) /\ SubSeq(s, 1, Len(p)) = p
\* unicode.IsSpace, on the characters of the pieces
IsSpace(c) == c \in {" ", "\n"}
isNonNewlineSpace(c) == c # "\n" /\ IsSpace(c)

\* html.EscapeString
escapeChar(c) ==
    CASE c = "&" -> <<"&", "a", "m", "p", ";">>
      [] c = "<" -> <<"&", "l", "t", ";">>
      [] c = ">" -> <<"&", "g", "t", ";">>
      [] c = "'" -> <<"&", "#", "3", "9", ";">>
      [] c = "\"" -> <<"&", "#", "3", "4", ";">>
      [] OTHER -> <<c>>
RECURSIVE EscapeString(_)
EscapeString(s) == IF s = <<>> THEN <<>> ELSE escapeChar(Head(s)) \o EscapeString(Tail(s))

\* strings.TrimFunc(s, isNonNewlineSpace)
RECURSIVE trimLeft(_)
trimLeft(s) == IF s # <<>> /\ isNonNewlineSpace(Head(s)) THEN trimLeft(Tail(s)) ELSE s
RECURSIVE trimRight(_)
trimRight(s) ==
    IF s # <<>> /\ isNonNewlineSpace(s[Len(s)]) THEN trimRight(SubSeq(s, 1, Len(s) - 1)) ELSE s
trimSpace(s) == trimRight(trimLeft(s))

\* strings.Index: the index, from 0, of the first sub in s, or -1.
Index(s, sub) ==
    LET hits == {i \in 0..Len(s) : HasPrefix(Drop(s, i), sub)}
    IN IF hits = {} THEN 0 - 1 ELSE Min(hits)

\* strings.Fields(s)[0], for an s that begins with a non-space character.
RECURSIVE FirstField(_)
FirstField(s) ==
    IF s = <<>> \/ IsSpace(Head(s)) THEN <<>> ELSE <<Head(s)>> \o FirstField(Tail(s))

\* url.Parse succeeds on every field over the characters of the pieces.
urlParses(link) == TRUE

NoLink == [i |-> 0 - 1, link |-> <<>>]

\* linkIndex: one turn of its loop per "http" found; at next the code sets
\* offs = i + 1 and text = text[i+1:].
RECURSIVE linkIndexLoop(_, _)
linkIndexLoop(text, offs) ==
    LET i == Index(text, http)
        link == FirstField(Drop(text, i))
    IN IF i < 0 THEN NoLink
       ELSE IF ~HasPrefix(link, httpColonSlashSlash) /\ ~HasPrefix(link, httpsColonSlashSlash)
            THEN linkIndexLoop(Drop(text, i + 1), i + 1)
       ELSE IF i > 0 /\ ~IsSpace(text[i])
            THEN linkIndexLoop(Drop(text, i + 1), i + 1)
       ELSE IF ~urlParses(link)
            THEN linkIndexLoop(Drop(text, i + 1), i + 1)
       ELSE [i |-> i + offs, link |-> link]

linkIndex(text) == linkIndexLoop(text, 0)

em(s) == IF s # <<>> THEN <<"<em>">> \o s \o <<"</em>">> ELSE s

RECURSIVE emphasize(_)
emphasize(text) ==
    LET r == linkIndex(text)
    IN IF r.i < 0 THEN em(text)
       ELSE em(SubSeq(text, 1, r.i)) \o r.link \o emphasize(Drop(text, r.i + Len(r.link)))

formatText(msg) ==
    LET text == EscapeString(msg.text)
        rest == Drop(text, Len(mePrefix))
    IN IF HasPrefix(text, mePrefix) /\ (rest = <<>> \/ isNonNewlineSpace(rest[1]))
       THEN (IF msg.from # Nil THEN <<"<b>", msg.from.name, "</b>", " ">> ELSE <<>>)
                \o emphasize(trimSpace(rest))
       ELSE (IF msg.from # Nil THEN <<"<b>", msg.from.name, ":</b>", " ">> ELSE <<>>)
                \o trimSpace(text)

\* A message is about to be given to formatText.
FormatInit ==
    /\ fnPc = "input"
    /\ fnRev = "formatText"
    /\ fnArg \in FormatInputs
    /\ fnRes = <<>>

\* Send: formatText(msg)
FormatCall ==
    /\ fnPc = "input"
    /\ fnRes' = formatText(fnArg)
    /\ fnPc' = "done"
    /\ UNCHANGED <<fnRev, fnArg, fnQuiet>>

InitFormat ==
    /\ InitBridge("new", EnvApi) /\ JoinInit({NoService}) /\ InboxInit({NoService})
    /\ TgInit("off") /\ FormatInit /\ DcInit /\ WsInit

NextFormat == FormatCall

\* formatText applied to every text of the pieces.
SpecFormat == InitFormat /\ [][NextFormat]_vars

\* ------------------------------------------------- Discord message deletes
\* The variables the Discord client's deletes leave alone.
dcQuiet == <<baseVars, tgVars, fnVars, wsVars>>

\* Channel.Delete, first half: the id is marked in cl.deletes under the mutex.
DcDeleteMark(id) ==
    /\ id \notin dcCalled
    /\ dcCalled' = dcCalled \cup {id}
    /\ dcDeletes' = dcDeletes \cup {id}
    /\ dcReq' = dcReq \cup {id}
    /\ UNCHANGED <<dcDeletedBy, dcUnreported, dcGateway, dcIn, dcReceived, dcDispatched,
                   dcQuiet>>

\* Channel.Delete, second half: the server answers the DELETE request.  It
\* deletes a message that exists; for one that is gone it answers 404, which
\* Delete returns as nil.
DcDeleteRequest(id) ==
    /\ id \in dcReq
    /\ dcReq' = dcReq \ {id}
    /\ IF dcDeletedBy[id] = "none"
       THEN /\ dcDeletedBy' = [dcDeletedBy EXCEPT ![id] = "client"]
            /\ dcUnreported' = dcUnreported \cup {id}
       ELSE UNCHANGED <<dcDeletedBy, dcUnreported>>
    /\ UNCHANGED <<dcCalled, dcDeletes, dcGateway, dcIn, dcReceived, dcDispatched, dcQuiet>>

\* Channel.Delete, second half: the request fails and Delete returns the error.
DcDeleteFails(id) ==
    /\ id \in dcReq
    /\ dcReq' = dcReq \ {id}
    /\ UNCHANGED <<dcDeletedBy, dcCalled, dcDeletes, dcUnreported, dcGateway, dcIn,
                   dcReceived, dcDispatched, dcQuiet>>

\* Someone else deletes a message.
DcOtherDeletes(id) ==
    /\ dcDeletedBy[id] = "none"
    /\ dcDeletedBy' = [dcDeletedBy EXCEPT ![id] = "other"]
    /\ dcUnreported' = dcUnreported \cup {id}
    /\ UNCHANGED <<dcCalled, dcDeletes, dcReq, dcGateway, dcIn, dcReceived, dcDispatched,
                   dcQuiet>>

\* The ids of S in the order of the gateway's list.
IdList(S) == SelectSeq(<<"m1", "m2", "m3">>, LAMBDA id : id \in S)

\* The gateway reports one deleted message: MESSAGE_DELETE sets ID.
DcGatewayDelete(id) ==
    /\ id \in dcUnreported
    /\ dcUnreported' = dcUnreported \ {id}
    /\ dcGateway' = Append(dcGateway, [t |-> "MESSAGE_DELETE", id |-> id, ids |-> <<>>])
    /\ UNCHANGED <<dcDeletedBy, dcCalled, dcDeletes, dcReq, dcIn, dcReceived, dcDispatched,
                   dcQuiet>>

\* The gateway reports deleted messages together: MESSAGE_DELETE_BULK sets IDs
\* and leaves ID empty.
DcGatewayBulk(S) ==
    /\ S # {}
    /\ S \subseteq dcUnreported
    /\ dcUnreported' = dcUnreported \ S
    /\ dcGateway' = Append(dcGateway,
                           [t |-> "MESSAGE_DELETE_BULK", id |-> EmptyID, ids |-> IdList(S)])
    /\ UNCHANGED <<dcDeletedBy, dcCalled, dcDeletes, dcReq, dcIn, dcReceived, dcDispatched,
                   dcQuiet>>

\* sendDelete: whether a Delete is to be sent for id, and cl.deletes afterwards.
sendDelete(deletes, id) ==
    IF id \in deletes
    THEN [send |-> FALSE, deletes |-> deletes \ {id}]
    ELSE [send |-> TRUE, deletes |-> deletes]

\* dispatchEvent, case MESSAGE_DELETE_BULK: the loop over ev.IDs.  Each turn
\* asks sendDelete about ev.ID, and sends a Delete of the turn's id.
RECURSIVE bulkLoop(_, _, _, _)
bulkLoop(deletes, ids, evID, out) ==
    IF ids = <<>>
    THEN [deletes |-> deletes, out |-> out]
    ELSE LET r == sendDelete(deletes, evID)
         IN  bulkLoop(r.deletes, Tail(ids), evID,
                      IF r.send THEN Append(out, Head(ids)) ELSE out)

\* dispatchEvent for the two delete events of a joined channel: cl.deletes
\* afterwards and the ids of the Delete events sent to the channel.
dispatchEvent(deletes, ev) ==
    IF ev.t = "MESSAGE_DELETE"
    THEN LET r == sendDelete(deletes, ev.id)
         IN  [deletes |-> r.deletes, out |-> IF r.send THEN <<ev.id>> ELSE <<>>]
    ELSE bulkLoop(deletes, ev.ids, ev.id, <<>>)

\* The gateway task gives the next event to dispatchEvent; send appends each
\* Delete to the batch in ch.in.  The marks the bulk loop reads are those of
\* ev.ID, which no Channel.Delete of a message sets, so the loop is one step.
DcDispatch ==
    /\ dcGateway # <<>>
    /\ LET ev == Head(dcGateway)
           r == dispatchEvent(dcDeletes, ev)
       IN  /\ dcDeletes' = r.deletes
           /\ dcIn' = dcIn \o r.out
           /\ dcDispatched' =
                  dcDispatched \cup (IF ev.t = "MESSAGE_DELETE" THEN {ev.id} ELSE Range(ev.ids))
    /\ dcGateway' = Tail(dcGateway)
    /\ UNCHANGED <<dcDeletedBy, dcCalled, dcReq, dcUnreported, dcReceived, dcQuiet>>

\* The channel's task takes the batch out of ch.in for Receive.
DcDrain ==
    /\ dcIn # <<>>
    /\ dcReceived' = dcReceived \o dcIn
    /\ dcIn' = <<>>
    /\ UNCHANGED <<dcDeletedBy, dcCalled, dcDeletes, dcReq, dcUnreported, dcGateway,
                   dcDispatched, dcQuiet>>

InitDiscord ==
    /\ InitBridge("new", EnvApi) /\ JoinInit({NoService}) /\ InboxInit({NoService})
    /\ TgInit("off") /\ FnIdle /\ DcInit /\ WsInit

NextDiscord ==
    \/ \E id \in DcIDs : DcDeleteMark(id)
    \/ \E id \in DcIDs : DcDeleteRequest(id)
    \/ \E id \in DcIDs : DcDeleteFails(id)
    \/ \E id \in DcIDs : DcOtherDeletes(id)
    \/ \E id \in DcIDs : DcGatewayDelete(id)
    \/ \E S \in SUBSET DcIDs : DcGatewayBulk(S)
    \/ DcDispatch
    \/ DcDrain

\* A Discord client whose channel's messages are deleted by the client and by
\* others, and the gateway's delete events.
SpecDiscord == InitDiscord /\ [][NextDiscord]_vars

\* --------------------------------------------------------- websocket Send
\* The variables Conn.Send and goSend leave alone.
wsQuiet == <<baseVars, tgVars, fnVars, dcVars>>

\* Conn.Send is called: result := make(chan error), unbuffered.
WsSendCall(k) ==
    /\ wsPc[k] = "idle"
    /\ wsPc' = [wsPc EXCEPT ![k] = "enqueue"]
    /\ UNCHANGED <<wsSend, wsCtxDone, wsResult, wsGoPc, wsGoReq, wsGoRes, wsQuiet>>

\* The context of a call ends.
WsCtxEnds(k) ==
    /\ wsPc[k] \in {"enqueue", "await"}
    /\ k \notin wsCtxDone
    /\ wsCtxDone' = wsCtxDone \cup {k}
    /\ UNCHANGED <<wsSend, wsPc, wsResult, wsGoPc, wsGoReq, wsGoRes, wsQuiet>>

\* Send, first select, case c.send <- sendReq{msg, result}.
WsSendEnqueue(k) ==
    /\ wsPc[k] = "enqueue"
    /\ Len(wsSend) < sendCap
    /\ wsSend' = Append(wsSend, k)
    /\ wsPc' = [wsPc EXCEPT ![k] = "await"]
    /\ UNCHANGED <<wsCtxDone, wsResult, wsGoPc, wsGoReq, wsGoRes, wsQuiet>>

\* Send, first select, case <-ctx.Done(): nothing was queued.
WsSendNotQueued(k) ==
    /\ wsPc[k] = "enqueue"
    /\ k \in wsCtxDone
    /\ wsPc' = [wsPc EXCEPT ![k] = "returned"]
    /\ wsResult' = [wsResult EXCEPT ![k] = "ctx"]
    /\ UNCHANGED <<wsSend, wsCtxDone, wsGoPc, wsGoReq, wsGoRes, wsQuiet>>

\* Send, second select, case <-ctx.Done(): the request stays queued or held.
WsSendGivesUp(k) ==
    /\ wsPc[k] = "await"
    /\ k \in wsCtxDone
    /\ wsPc' = [wsPc EXCEPT ![k] = "returned"]
    /\ wsResult' = [wsResult EXCEPT ![k] = "ctx"]
    /\ UNCHANGED <<wsSend, wsCtxDone, wsGoPc, wsGoReq, wsGoRes, wsQuiet>>

\* goSend: for req := range c.send, then c.conn.WriteJSON(req.msg).
WsGoTake(r) ==
    /\ wsGoPc = "range"
    /\ wsSend # <<>>
    /\ wsGoReq' = Head(wsSend)
    /\ wsSend' = Tail(wsSend)
    /\ wsGoRes' = r
    /\ wsGoPc' = "result"
    /\ UNCHANGED <<wsPc, wsCtxDone, wsResult, wsQuiet>>

\* goSend: req.result <- r meets the caller's r := <-result.  The channel has
\* no buffer, so the send needs the caller to be in its second select.
WsDeliver ==
    /\ wsGoPc = "result"
    /\ wsPc[wsGoReq] = "await"
    /\ wsPc' = [wsPc EXCEPT ![wsGoReq] = "returned"]
    /\ wsResult' = [wsResult EXCEPT ![wsGoReq] = wsGoRes]
    /\ wsGoPc' = "range"
    /\ wsGoReq' = 0
    /\ wsGoRes' = "none"
    /\ UNCHANGED <<wsSend, wsCtxDone, wsQuiet>>

InitWs ==
    /\ InitBridge("new", EnvApi) /\ JoinInit({NoService}) /\ InboxInit({NoService})
    /\ TgInit("off") /\ FnIdle /\ DcInit /\ WsInit

NextWs ==
    \/ \E k \in WsCallers : WsSendCall(k)
    \/ \E k \in WsCallers : WsCtxEnds(k)
    \/ \E k \in WsCallers : WsSendEnqueue(k)
    \/ \E k \in WsCallers : WsSendNotQueued(k)
    \/ \E k \in WsCallers : WsSendGivesUp(k)
    \/ \E r \in {"nil", "write error"} : WsGoTake(r)
    \/ WsDeliver

\* Every step of goSend and of a caller inside Send is taken if it stays
\* possible; calls of Send and the ends of contexts are up to the callers.
FairWs ==
    /\ \A k \in WsCallers : WF_vars(WsSendEnqueue(k))
    /\ \A k \in WsCallers : WF_vars(WsSendNotQueued(k))
    /\ \A k \in WsCallers : WF_vars(WsSendGivesUp(k))
    /\ WF_vars(\E r \in {"nil", "write error"} : WsGoTake(r))
    /\ WF_vars(WsDeliver)

\* A connection, its goSend task and the callers of Conn.Send.
SpecWs == InitWs /\ [][NextWs]_vars /\ FairWs

\* ------------------------------------------------------------------ claims
\* The tags of the events that have left relay: on recvIn, held by mux or recv,
\* or returned by Bridge.Receive.
RECURSIVE Flatten(_)
Flatten(ss) == IF ss = <<>> THEN <<>> ELSE Head(ss) \o Flatten(Tail(ss))
Downstream == Range(Flatten(recvIn)) \cup Range(muxEvs) \cup Range(recvBatch)
                \cup Range(received)

C2_RelayBeforeReceive ==
    /\ \A t \in Downstream : t.seq \in relayed
    /\ muxPc \in {"push", "redeposit"} => muxEv.seq \in relayed

\* C2 witness: Bridge.Receive has returned an event.
C2_Witness == received # <<>> /\ received[1].seq \in relayed

\* C3: at most one relay call is in progress, and while it is, its event is the
\* one mux holds.
C3_RelaySerial ==
    /\ Cardinality(inRelay) <= 1
    /\ inRelay # {} => (muxPc \in {"relay", "panic"} /\ inRelay = {muxEv.seq})

\* C3 witness: a relay is in progress while another event waits in eventsMux and
\* a poll task holds a third.
C3_Witness ==
    /\ inRelay # {}
    /\ eventsMux # <<>>
    /\ \E c \in Chan : pollPc[c] = "push"

\* C11: no event is returned by Bridge.Receive twice, nor is one both returned
\* and still on its way to Bridge.Receive, nor twice on its way.
C11_AtMostOnce ==
    LET all == received \o recvBatch \o muxEvs \o Flatten(recvIn)
    IN \A i, j \in 1..Len(all) : i # j => all[i] # all[j]

\* C11 witness: recv is forwarding a batch that mux merged by take, append and
\* redeposit, and Bridge.Receive has returned an event.
C11_Witness == Len(recvBatch) >= 2 /\ received # <<>>

\* C12: when an error had been reported to pollError or closeError before
\* Bridge.Close was called, Bridge.Close returns one of these errors.
C12_CloseReportsError ==
    (closePc = "returned" /\ errAtClose # {}) => closeResult \in errAtClose

\* The calls a finished fan-out has made on channel x.
CallsOn(x) == {i \in 1..Len(tasks) : tasks[i].ch = x /\ tasks[i].called}

\* C4: when the fan-out of a Message event has finished, every sibling of the
\* origin has had exactly one Send call, carrying the event's text and From user.
C4_FanOut ==
    (muxPc = "relay" /\ muxEv.kind = "Message" /\ AllReturned(tasks)) =>
        \A x \in Chan \ {muxEv.origin} :
            /\ Cardinality(CallsOn(x)) = 1
            /\ \A i \in CallsOn(x) :
                  /\ tasks[i].op = "send"
                  /\ tasks[i].req.text = muxEv.text
                  /\ tasks[i].req.from = muxEv.from

\* C4 witness: the fan-out of a Message has finished with both siblings called.
C4_Witness ==
    /\ muxPc = "relay" /\ muxEv.kind = "Message" /\ AllReturned(tasks)
    /\ \A x \in Chan \ {muxEv.origin} : CallsOn(x) # {}
    /\ muxEv.from = "u"

\* The entries a history of capacity MaxHistory with FIFO eviction still holds.
LastK(rec) == {rec[i] : i \in {j \in 1..Len(rec) : j > Len(rec) - MaxHistory}}
\* The entries it has dropped.
FirstM(rec) == {rec[i] : i \in {j \in 1..Len(rec) : j <= Len(rec) - MaxHistory}}
Holds(es, o, id) == \E e \in es : e.o = o /\ e.id = id

\* The id under which the message now known as id on o was first announced.
RECURSIVE Root(_, _)
Root(o, id) ==
    LET es == {e \in Range(recorded) : e.o = o /\ e.id = id /\ e.orig # id}
    IN IF es = {} THEN id ELSE Root(o, (CHOOSE e \in es : TRUE).orig)

\* What channel x has returned, before the event in relay, for the message
\* known as id on o: the results of its Send and of its Edits.
HeldBy(x, o, id) ==
    {r \in sent : r.x = x /\ r.o = o /\ r.s < muxEv.seq /\ Root(o, r.id) = Root(o, id)}
IdsOf(held) == {r.xid : r \in held} \ {NoID}
LatestText(held) == (CHOOSE r \in held : \A q \in held : q.s <= r.s).text

\* C5: while a message from o is in the history, a Message event on o that
\* replies to it is sent to every sibling that returned an id for it with
\* replyTo set to an id that sibling returned.
C5_ReplyMapping ==
    (muxPc = "relay" /\ muxEv.kind = "Message" /\ muxEv.replyTo # Nil
        /\ Holds(LastK(recorded), muxEv.origin, muxEv.replyTo.id)) =>
        \A i \in 1..Len(tasks) :
            LET ids == IdsOf(HeldBy(tasks[i].ch, muxEv.origin, muxEv.replyTo.id))
            IN (tasks[i].called /\ ids # {}) =>
                  /\ tasks[i].req.replyTo # Nil
                  /\ tasks[i].req.replyTo.id \in ids

\* C6: while a message from o is in the history, the relay of an Edit of it
\* calls Edit, with the new text and an id the sibling returned, on every
\* sibling that returned an id for it and whose copy has another text.
C6_EditTracking ==
    (muxPc = "relay" /\ muxEv.kind = "Edit" /\ AllReturned(tasks)
        /\ Holds(LastK(recorded), muxEv.origin, muxEv.origId)) =>
        \A x \in Chan \ {muxEv.origin} :
            LET held == HeldBy(x, muxEv.origin, muxEv.origId)
            IN (IdsOf(held) # {} /\ LatestText(held) # muxEv.text) =>
                  \E i \in 1..Len(tasks) :
                      /\ tasks[i].ch = x /\ tasks[i].called /\ tasks[i].op = "edit"
                      /\ tasks[i].req.id \in IdsOf(held)
                      /\ tasks[i].req.text = muxEv.text

\* C7: during the relay of an Edit, Edit is not called on a sibling whose logged
\* copy already has the new text.
C7_EditSkip ==
    (muxPc = "relay" /\ muxEv.kind = "Edit") =>
        \A i \in 1..Len(tasks) :
            tasks[i].called => findMessage(find, tasks[i].ch).text # muxEv.text

\* C8: eviction is FIFO: the relay of an Edit of a message that is among the
\* entries recorded before the last MaxHistory, and not among these, makes no
\* adapter call, and every one of the last MaxHistory recorded entries resolves.
C8_FifoEviction ==
    /\ (muxPc = "relay" /\ muxEv.kind = "Edit"
          /\ Holds(FirstM(recorded), muxEv.origin, muxEv.origId)
          /\ ~Holds(LastK(recorded), muxEv.origin, muxEv.origId)) =>
            \A i \in 1..Len(tasks) : ~tasks[i].called
    /\ \A e \in LastK(recorded) : makeFindMessage(log, e.o, e.id) # NoEntry

\* C9: the relay of a Rename whose old and new names are equal calls no adapter.
C9_RenameSuppression ==
    (muxPc = "relay" /\ muxEv.kind = "Rename" /\ muxEv.old = muxEv.new) =>
        \A i \in 1..Len(tasks) : ~tasks[i].called /\ tasks[i].st # "called"

\* C9 witness: the relay of such a Rename has returned.
C9_Witness ==
    muxPc = "push" /\ muxEv.kind = "Rename" /\ muxEv.old = muxEv.new
        /\ muxEv.seq \in relayed

\* C10: no adapter call is started for an event that mux took from eventsMux
\* after Close had closed b.closed.
C10_Cancellation ==
    ~(muxPc = "relay" /\ lateTake /\ \E i \in 1..Len(tasks) : tasks[i].st = "called")

\* C13: a Bridge.Send called after mux has ended calls no adapter.
C13_TerminalAbsorbing ==
    \A k \in Callers :
        ~(apiCall[k].late /\ \E i \in 1..Len(apiTasks[k]) : apiTasks[k][i].called)

\* The step in which caller k's Bridge.Send returns.
SendReturns(k) == Len(sends') = Len(sends) + 1 /\ sends'[Len(sends')].k = k
\* A channel's Send ended with the deadline of sendMessage.
TimedOut(t) == t.called /\ ~t.err /\ t.res.msg = ZeroMsg
\* What a successful Bridge.Send of caller k has done when it returns: one Send
\* call on every bridged channel, and one more history entry, made of what every
\* channel returned and of the bridge's own copy under the returned id.
SendSucceeds(k) ==
    LET ts == apiTasks[k]
        e == ApiEntry(apiCall[k], ts)
    IN /\ sends'[Len(sends')].ok
       /\ \A ch \in Chan :
             Cardinality({i \in 1..Len(ts) : ts[i].ch = ch /\ ts[i].called}) = 1
       /\ \A i \in 1..Len(ts) : e[i] = ts[i].res /\ ts[i].op = "send"
       /\ e[Len(e)].to = BridgeChan
       /\ e[Len(e)].msg.id = sends'[Len(sends')].id
       /\ Len(e) = Len(channels) + 1
       /\ log' = IF Len(log) < MaxHistory THEN Append(log, e) ELSE Append(Tail(log), e)
SendFails(k) == ~sends'[Len(sends')].ok /\ log' = log

\* C18 as stated: Bridge.Send fails and logs nothing when the Send of any
\* channel failed, the deadline included; otherwise it succeeds.
C18_SendFanOut_AnyFailure ==
    [][\A k \in Callers : SendReturns(k) =>
          IF \E i \in 1..Len(apiTasks[k]) :
                apiTasks[k][i].err \/ TimedOut(apiTasks[k][i])
          THEN SendFails(k) ELSE SendSucceeds(k)]_vars

\* C18, amended: Bridge.Send fails and logs nothing when the Send of a channel
\* returned an error other than the deadline's; otherwise, a Send that ran into
\* the deadline included, it succeeds, having called Send once on every bridged
\* channel and logged one entry.
C18_SendFanOut ==
    [][\A k \in Callers : SendReturns(k) =>
          IF \E i \in 1..Len(apiTasks[k]) : apiTasks[k][i].err
          THEN SendFails(k) ELSE SendSucceeds(k)]_vars

\* C18 witness: a Bridge.Send has succeeded and its entry is the last of the log,
\* one copy in it being that of a Send that ran into the deadline.
C18_Witness ==
    /\ \E i \in 1..Len(sends) : sends[i].ok
    /\ log # <<>>
    /\ LET e == log[Len(log)]
       IN /\ e[Len(e)].to = BridgeChan
          /\ \E i \in 1..Len(e) : e[i].to = "C" /\ e[i].msg = ZeroMsg

\* The number a decimal string stands for.
RECURSIVE Atoi(_)
Atoi(d) == IF Len(d) = 1 THEN d[1] ELSE 10 * Atoi(SubSeq(d, 1, Len(d) - 1)) + d[Len(d)]
OkSends == {i \in 1..Len(sends) : sends[i].ok}

\* C19: the ids Bridge.Send has handed out are the decimal strings of
\* 0 .. b.nextID - 1, each handed out once, and a call that started after
\* another had returned has the larger id.
C19_MonotonicIds ==
    /\ \A i, j \in OkSends : i # j => sends[i].id # sends[j].id
    /\ \A i \in OkSends, k \in Callers : apiPc[k] = "log" => sends[i].id # apiCall[k].id
    /\ {sends[i].id : i \in OkSends} \cup {apiCall[k].id : k \in {c \in Callers : apiPc[c] = "log"}}
          = {Itoa(n) : n \in 0..(bNextID - 1)}
    /\ \A i, j \in OkSends : i <= sends[j].before => Atoi(sends[i].id) < Atoi(sends[j].id)

\* C19 witness: two Send calls that overlapped have both returned, and so has a
\* call that started after another had returned.
C19_Witness ==
    /\ \E i, j \in OkSends : i < j /\ sends[j].before < i /\ sends[i].k # sends[j].k
    /\ bNextID >= 2

C14_JoinIdempotent ==
    /\ \A i, j \in 1..Len(jJoins) :
          jJoins[i].id = jJoins[j].id => jJoins[i].h = jJoins[j].h
    /\ \A r \in 1..Len(jRouted), i \in 1..Len(jJoins) :
          (i <= jRouted[r].n /\ jJoins[i].id = jRouted[r].id) => jRouted[r].h = jJoins[i].h

Pushed == [i \in 1..ibNext |-> i]

\* C16: as long as nothing but Receive reads ch.out, what Receive has returned,
\* followed by what the goroutine holds and by what is in ch.in or in the
\* producer's hands, is the sequence of the items pushed.
C16_OrderAndCompleteness ==
    ~ibStopped => ibPulled \o ibDrainBatch \o Flatten(ibIn) \o ibHeld = Pushed

\* C16 witness: Receive has returned an item out of a batch of two, the
\* goroutine holds the other, and a third is in ch.in.
C16_Witness ==
    /\ ~ibStopped
    /\ ibPulled = <<1>>
    /\ ibDrainBatch = <<2>>
    /\ ibIn = << <<3>> >>

\* C17: when Receive returns io.EOF it has returned every item pushed, in order.
C17_CloseDrains == ibEOF => ibPulled = Pushed

\* The last entry of a history.
LastEntry(lg) == lg[Len(lg)]
\* Every task of a fan-out has made its call and the call has returned.
Completed(ts) == \A i \in 1..Len(ts) : ts[i].st = "ret" /\ ts[i].called
\* What the tasks of a fan-out returned, in the order of the tasks.
Copies(ts) == [i \in 1..Len(ts) |-> ts[i].res]

C22_WellFormedEntries ==
    \A n \in 1..Len(log) :
        /\ \A i, j \in 1..Len(log[n]) : i # j => log[n][i].to # log[n][j].to
        /\ \A j \in 1..Len(log[n]) : log[n][j].to \in Chan /\ log[n][j].msg.id # NoID

\* The error relay returns for event number s is in closeError or has been
\* returned by Bridge.Close.
RelayFailedFor(s) == <<"relay", s>> \in Range(closeError) \cup {closeResult}
\* Event number s has left relay towards Bridge.Receive: the mux is pushing it,
\* or it is in recvIn, with recv, or received; recv drops what it has when the
\* context is cancelled.
OnItsWay(s) ==
    \/ muxEv.seq = s /\ muxPc \in {"push", "redeposit"}
    \/ \E t \in Downstream : t.seq = s
    \/ recvPc = "done"

\* C23: when the fan-out of a Message ends with a Send that ran into the
\* deadline and no Send that failed, relay returns nil: the mux goes on to push
\* the event, nothing is put on closeError, the context is not cancelled, and
\* the entry is logged; and the event is then on its way to Bridge.Receive.
C23_DeadlineNotFatal ==
    /\ [][(/\ muxPc = "relay" /\ muxPc' # "relay"
           /\ muxEv.kind = "Message"
           /\ \E i \in 1..Len(tasks) : TimedOut(tasks[i])
           /\ \A i \in 1..Len(tasks) : ~tasks[i].err)
          => /\ muxPc' = "push"
             /\ muxEv' = muxEv
             /\ UNCHANGED <<closeError, closeErrorClosed, cancelled>>
             /\ log' # <<>>
             /\ LastEntry(log')[Len(channels)].to = muxEv.origin
             /\ \E j \in 1..Len(tasks) : LastEntry(log')[j] = [to |-> "C", msg |-> ZeroMsg]]_vars
    /\ [](\A r \in sent :
            (r.via = "send" /\ r.xid = NoID /\ r.s \in relayed /\ ~RelayFailedFor(r.s))
                => OnItsWay(r.s))

\* C23 witness: Bridge.Receive has returned a Message one of whose Sends ran
\* into the deadline, and the mux is still running with closeError empty.
C23_Witness ==
    /\ \E r \in sent :
          /\ r.via = "send" /\ r.xid = NoID
          /\ [origin |-> r.o, seq |-> r.s] \in Range(received)
    /\ muxPc = "select"
    /\ closeError = <<>>
    /\ ~closeErrorClosed

C25_BoundedKeepsNewest ==
    /\ Len(log) <= MaxHistory
    /\ recorded # <<>> =>
          LET e == recorded[Len(recorded)]
          IN /\ log # <<>>
             /\ \E j \in 1..Len(LastEntry(log)) :
                   LastEntry(log)[j].to = e.o /\ LastEntry(log)[j].msg.id = e.id
             /\ makeFindMessage(log, e.o, e.id) # NoEntry

\* C26: the relay of an Edit or Delete whose id resolves to no entry of the
\* history calls no adapter and does not crash.
C26_UnknownIsNoOp ==
    (muxEv.kind \in {"Edit", "Delete"} /\ muxPc \in {"relay", "panic"} /\ find = NoEntry) =>
        /\ muxPc # "panic"
        /\ \A i \in 1..Len(tasks) : ~tasks[i].called /\ tasks[i].st # "called"

\* C27: when the relay of an Edit returns, the history is as long as before,
\* and the entry the message's new id resolves to still has a copy for every
\* sibling that had one, with the id the sibling's Edit returned if it was called.
C27_EditReplacesCopies ==
    [][(muxPc = "relay" /\ muxPc' = "push" /\ muxEv.kind = "Edit" /\ find # NoEntry) =>
          /\ Len(log') = Len(log)
          /\ \A i \in 1..Len(tasks) :
                LET x == tasks[i].ch
                    now == findMessage(makeFindMessage(log', muxEv.origin, muxEv.id), x)
                IN findMessage(find, x) # Nil =>
                      /\ now # Nil
                      /\ now.id = IF tasks[i].called THEN tasks[i].res.msg.id
                                  ELSE findMessage(find, x).id]_vars

\* The delete calls made on sibling x in the fan-out in progress.
DeletesOn(x) == {i \in 1..Len(tasks) : tasks[i].ch = x /\ tasks[i].op = "delete" /\ tasks[i].called}
\* The fan-out of a Delete that resolved an entry has come to its end.
DeleteFannedOut ==
    /\ muxPc = "relay"
    /\ muxEv.kind = "Delete"
    /\ find # NoEntry
    /\ \A i \in 1..Len(tasks) : tasks[i].st = "ret"

\* C28: once the fan-out of a Delete whose id resolves to an entry has ended,
\* every sibling with a copy in the entry has had exactly one delete call, with
\* that copy as its argument, a sibling without a copy has had none, and the
\* origin none; the relay of a Delete never changes the history.
C28_DeleteRelay ==
    /\ [](DeleteFannedOut =>
            \A x \in Chan :
               LET cp == findMessage(find, x)
               IN IF x # muxEv.origin /\ cp # Nil
                  THEN /\ Cardinality(DeletesOn(x)) = 1
                       /\ \A i \in DeletesOn(x) : tasks[i].req = cp
                  ELSE DeletesOn(x) = {})
    /\ [][(muxPc = "relay" /\ muxEv.kind = "Delete") => log' = log]_vars
\* A Delete resolved an entry in which C has a copy with an id of its own and,
\* after an Edit that left B's text as it was, B has none; C got the one call.
C28_Witness ==
    /\ DeleteFannedOut
    /\ findMessage(find, "C") # Nil
    /\ findMessage(find, "C").id # muxEv.id
    /\ findMessage(find, "B") = Nil
    /\ DeletesOn("C") # {}

\* The event in relay is a Join, a Leave, or a Rename with differing names.
Notifies(ev) ==
    \/ ev.kind \in {"Join", "Leave"}
    \/ ev.kind = "Rename" /\ ev.old # ev.new
\* The text of the notification for ev, spelled out.
NoteText(ev) ==
    CASE ev.kind = "Join" -> <<ev.from, " joined ", ev.origin, " on ", "svc", ev.origin>>
      [] ev.kind = "Leave" -> <<ev.from, " left ", ev.origin, " on ", "svc", ev.origin>>
      [] ev.kind = "Rename" ->
            <<ev.old, " renamed to ", ev.new, " in ", ev.origin, " on ", "svc", ev.origin>>
\* The fan-out of a notification has come to its end.
NoteFannedOut ==
    /\ muxPc = "relay"
    /\ Notifies(muxEv)
    /\ \A i \in 1..Len(tasks) : tasks[i].st = "ret"

\* C29: once the fan-out of a Join, a Leave or a Rename with differing names has
\* ended, every sibling has had exactly one Send, of a message with no from
\* user, no id and the notification's text, the origin none; relay of such an
\* event (and of a Rename with equal names) never changes the history.
C29_NotificationsNotLogged ==
    /\ [](NoteFannedOut =>
            \A x \in Chan :
               LET calls == {i \in 1..Len(tasks) : tasks[i].ch = x /\ tasks[i].called}
               IN IF x = muxEv.origin THEN calls = {}
                  ELSE /\ Cardinality(calls) = 1
                       /\ \A i \in calls :
                             /\ tasks[i].op = "send"
                             /\ tasks[i].req.from = ""
                             /\ tasks[i].req.id = NoID
                             /\ tasks[i].req.text = NoteText(muxEv))
    /\ [][(muxPc = "relay" /\ muxEv.kind \in {"Join", "Leave", "Rename"}) => log' = log]_vars
\* The fan-out of a Leave has ended with a Send on both siblings, the history
\* holding the entry of an earlier Message.
C29_Witness ==
    /\ NoteFannedOut
    /\ muxEv.kind = "Leave"
    /\ log # <<>>
    /\ \A x \in Chan \ {muxEv.origin} : \E i \in 1..Len(tasks) : tasks[i].ch = x /\ tasks[i].called

\* The poll errors that mux has taken out of pollError and passed on to Close.
PollErrorsTaken ==
    {e \in Range(closeError) \cup {closeResult} : e[1] = "receive"}

C37_NoEchoToOrigin ==
    /\ muxPc = "relay" => \A i \in 1..Len(tasks) : tasks[i].ch # muxEv.origin
    /\ \A r \in sent : r.x # r.o
\* The fan-out of an event of B has ended with calls on A and on C.
C37_Witness ==
    /\ muxPc = "relay"
    /\ muxEv.origin = "B"
    /\ \A i \in 1..Len(tasks) : tasks[i].st = "ret"
    /\ \A x \in {"A", "C"} : \E i \in 1..Len(tasks) : tasks[i].ch = x /\ tasks[i].called


\* C33: once Bridge.Close has returned, every poll task eventually exits.
C33_PollTasksExit == (closePc = "returned") ~> (\A c \in Chan : pollPc[c] = "done")

\* C34: the relay of an event eventually returns.
C34_RelayTerminates == (muxPc = "relay") ~> (muxPc # "relay")

\* C38: a call of Bridge.Close eventually returns.
C38_CloseTerminates == (closePc = "waiting") ~> (closePc = "returned")


\* C31: the poll task never puts the context's cancellation on c.pollError, and
\* Close never returns it.
C31_SilentOnCancel ==
    /\ "context canceled" \notin Range(tgPollError)
    /\ tgCloseResult # "context canceled"

\* C32: the offset of poll never decreases; a successful getUpdates with
\* results sets it to the last result's update id + 1 and one without results
\* leaves it as it is.
C32_OffsetCursor ==
    [][/\ tgOffset' >= tgOffset
       /\ (tgPc = "rpc" /\ tgPc' = "send") => tgOffset' = tgUs'[Len(tgUs')] + 1
       /\ (tgPc = "rpc" /\ tgPc' = "select") => tgOffset' = tgOffset]_vars


\* The update given to chatEvent has a message, sent after the channel was
\* created, with a From, that is no reply and names a left chat member and no
\* new one.
LeftMemberUpdate ==
    /\ fnArg.msg # Nil
    /\ ~fnArg.msg.old
    /\ fnArg.msg.from # Nil
    /\ fnArg.msg.replyTo = "none"
    /\ fnArg.msg.newMember = Nil
    /\ fnArg.msg.leftMember # Nil

\* C35: for such an update chatEvent returns a Leave whose who is the chat user
\* of LeftChatMember, and does not fail.
C35_LeaveCarriesWhoLeft ==
    (fnPc = "done" /\ LeftMemberUpdate) =>
        /\ fnRes.kind = "Leave"
        /\ fnRes.who.id = fnArg.msg.leftMember.id


\* A run of non-whitespace characters that begins with http:// or https://.
IsLinkRun(run) ==
    HasPrefix(run, <<"h", "t", "t", "p", ":", "/", "/">>)
        \/ HasPrefix(run, <<"h", "t", "t", "p", "s", ":", "/", "/">>)
\* The text from its k-th character on with every link run, at the start or
\* after whitespace, verbatim, and every non-empty span between them (span
\* holds the one in progress) wrapped in <em></em>.
RECURSIVE Emphasized(_, _, _)
Emphasized(text, k, span) ==
    LET wrap(s) == IF s = <<>> THEN <<>> ELSE <<"<em>">> \o s \o <<"</em>">>
        run == FirstField(Drop(text, k - 1))
    IN IF k > Len(text) THEN wrap(span)
       ELSE IF (k = 1 \/ IsSpace(text[k - 1])) /\ IsLinkRun(run)
            THEN wrap(span) \o run \o Emphasized(text, k + Len(run), <<>>)
       ELSE Emphasized(text, k + 1, Append(span, text[k]))
\* The text is an emote: "/me" followed by non-newline whitespace.
IsEmote(text) == HasPrefix(text, <<"/", "m", "e", " ">>)

\* C36: formatText of an emote is the text after "/me", trimmed, with its
\* links verbatim and the spans between them emphasized, after "<b>name</b> "
\* when from is set; that of another text with from set begins with
\* "<b>name:</b> ".
C36_EmoteFormatting ==
    fnPc = "done" =>
        IF IsEmote(fnArg.text)
        THEN fnRes = (IF fnArg.from # Nil THEN <<"<b>", fnArg.from.name, "</b>", " ">> ELSE <<>>)
                        \o Emphasized(trimSpace(Drop(fnArg.text, 3)), 1, <<>>)
        ELSE fnArg.from # Nil => HasPrefix(fnRes, <<"<b>", fnArg.from.name, ":</b>", " ">>)


\* The number of Delete events for id that the channel has been given.
DeletesFor(id) ==
    Cardinality({i \in 1..Len(dcReceived \o dcIn) : (dcReceived \o dcIn)[i] = id})

\* C39: once the gateway event of a deleted message has been dispatched, the
\* channel has been given no Delete for a message the client deleted through
\* Channel.Delete, and the mark of that message is gone from cl.deletes; it has
\* been given exactly one Delete for a message someone else deleted.
C39_DeleteEchoSuppression ==
    \A id \in dcDispatched :
        /\ dcDeletedBy[id] = "client" => DeletesFor(id) = 0 /\ id \notin dcDeletes
        /\ dcDeletedBy[id] = "other" => DeletesFor(id) = 1

\* C40: goSend does not stay blocked on the result of a request, and a call of
\* Send that has queued its request returns unless its context ends.
C40_SendDoesNotWedge ==
    /\ (wsGoPc = "result") ~> (wsGoPc = "range")
    /\ \A k \in WsCallers :
          (wsPc[k] = "await" /\ k \notin wsCtxDone)
              ~> (wsPc[k] = "returned" \/ k \in wsCtxDone)

====
